---- MODULE Spec2Model ----
(***************************************************************************)
(* Bounded conversation-context manager of 21-agentic-memory               *)
(* (scripts/agent_service.py): the session variants (Default, Trimming,    *)
(* Summarizing, tracking Compacting), the windowing function, the usage    *)
(* estimator and the session registry, as a state machine.                 *)
(***************************************************************************)
EXTENDS Integers, Sequences, FiniteSets, TLC

\* ------------------------------------------------------------------ bounds
\* Largest number of conversation items ever created in one behaviour.
MaxId == 4
\* Largest turn parameter (max_turns, keep_last_n_turns, context limit) tried.
MaxParam == 3
\* Longest list handed to one add_items call.
MaxBatch == 2

VARIABLES
    SESSIONS,         \* agent id -> session object (or NoSession)
    instances,        \* agent id -> identity of that object (or NoInstance)
    calls,            \* Summarizing add_items calls suspended in the summarizer
    summarizerCalls,  \* how often the summarizer collaborator was called
    nextId,           \* identity of the last conversation item created
    log,              \* add_items calls since construction / clear_session
    last,             \* the operation that produced this state
    ledger            \* usage deltas recorded by sessions / reported by runs

vars == <<SESSIONS, instances, calls, summarizerCalls, nextId, log, last, ledger>>

\* ------------------------------------------------------------ small helpers
Min(a, b) == IF a <= b THEN a ELSE b
Max(a, b) == IF a >= b THEN a ELSE b

AgentIds == {"a1"}

ROLE_USER == "user"

\* The fixed texts of the summarizer fallback paths.
SHADOW_LINE == "Summarize the conversation we had so far."
FALLBACK_SUMMARY == "Summary of earlier conversation (temporary fallback)."
UNAVAILABLE_SUMMARY == "Summary of earlier conversation (unavailable)."
\* A summary text as the language model returns it.
MODEL_SUMMARY == "Product: laptop. Issue: refund."

\* ------------------------------------------------------ conversation items
\* An item is a dict {"role", "content"} (tool items also carry the tool name);
\* id is the identity of the Python object.
Shapes == {"user", "assistant", "tool"}

\* The further shapes of items the usage estimator may be handed: an
\* unrecognized role, a dict without role, a tool result, a tool that is not
\* the retrieval tool, a function call of the SDK (typed, without role) and a
\* user message without text.
UsageShapes ==
    Shapes \cup {"system", "norole", "tool_result", "lookup", "function_call", "empty"}

\* item.get("role"); "" stands for a dict without the key.
ShapeRole(shape) ==
    CASE shape \in {"user", "assistant", "tool", "system", "tool_result"} -> shape
      [] shape = "lookup" -> "tool"
      [] shape = "empty" -> "user"
      [] OTHER -> ""

ShapeContent(shape) ==
    CASE shape = "user" -> "hello"
      [] shape = "assistant" -> "ok, done."
      [] shape = "system" -> "be brief"
      [] shape = "norole" -> "hm"
      [] shape = "lookup" -> "order 17 shipped"
      [] shape = "function_call" -> "{query: refund}"
      [] shape = "empty" -> ""
      [] OTHER -> "policy text"

\* The tool name an item carries ("" for none).
ShapeName(shape) ==
    CASE shape \in {"tool", "tool_result", "function_call"} -> "SearchPolicy"
      [] shape = "lookup" -> "GetOrder"
      [] OTHER -> ""

\* item.get("messageType") or item.get("type"); "" for none.
ShapeType(shape) == IF shape = "function_call" THEN "function_call" ELSE ""

MkItem(shape, n) ==
    [role |-> ShapeRole(shape), id |-> n, content |-> ShapeContent(shape),
     name |-> ShapeName(shape), type |-> ShapeType(shape), compacted |-> FALSE]

\* The dicts SummarizingSession.add_items builds; each summarization makes
\* new objects, told apart here by a negative id.
SyntheticItem(role, text, n) ==
    [role |-> role, id |-> 0 - n, content |-> text, name |-> "", type |-> "",
     compacted |-> FALSE]

\* The lists of roles an add_items call may carry (the empty list included).
Batches ==
    UNION {[1..n -> {"user", "assistant"}] : n \in 0..MaxBatch} \cup {<<"tool">>}

\* The new items of a batch, numbered after the last item created.
MkBatch(batch, from) == [i \in 1..Len(batch) |-> MkItem(batch[i], from + i)]

IsUserMsg(item) == item.role = ROLE_USER

RECURSIVE CountUserTurns(_)
CountUserTurns(items) ==
    IF items = <<>> THEN 0
    ELSE (IF IsUserMsg(Head(items)) THEN 1 ELSE 0) + CountUserTurns(Tail(items))

\* items[n:] of Python, n >= 0.
DropFirst(items, n) == SubSeq(items, n + 1, Len(items))

\* items[-limit:] of Python for limit >= 0: [-0:] is the whole list.
LastN(items, limit) ==
    IF limit = 0 \/ limit >= Len(items) THEN items
    ELSE SubSeq(items, Len(items) - limit + 1, Len(items))

IsSuffixOf(s, t) == Len(s) <= Len(t) /\ s = DropFirst(t, Len(t) - Len(s))

\* ---------------------------------------------------------- usage estimator
ZeroUsage ==
    [userInput |-> 0, agentOutput |-> 0, tools |-> 0,
     memory |-> 0, rag |-> 0, basePrompt |-> 0]

EstimateTokensFromText(text) ==
    IF text = "" THEN 0 ELSE (Len(text) + 3) \div 4

IsRagToolItem(item) == item.name = "SearchPolicy"

TOOL_MESSAGE_TYPES == {"function_call", "function_call_output", "tool", "tool_result"}

\* The role of _extract_role_and_text that looks at the role key only.
ExtractRole_RoleOnly(item) == IF item.role = "" THEN "assistant" ELSE item.role

\* The role _extract_role_and_text returns: the item's role, "assistant" when
\* it has none, and "tool" for every item whose message type is a tool type.
ExtractRole(item) ==
    IF item.type \in TOOL_MESSAGE_TYPES THEN "tool"
    ELSE IF item.role = "" THEN "assistant" ELSE item.role

RECURSIVE EstimateUsageForItems(_)
EstimateUsageForItems(items) ==
    IF items = <<>> THEN ZeroUsage
    ELSE LET item == Head(items)
             rest == EstimateUsageForItems(Tail(items))
             tokens == EstimateTokensFromText(item.content)
             role == ExtractRole(item)
             is_tool_role == role \in {"tool", "tool_result"}
             bucket == CASE role = "user" -> "userInput"
                         [] role = "assistant" -> "agentOutput"
                         [] is_tool_role -> "tools"
                         [] OTHER -> "agentOutput"
         IN  IF tokens <= 0 THEN rest
             ELSE LET counted == [rest EXCEPT ![bucket] = @ + tokens]
                  IN  IF is_tool_role /\ IsRagToolItem(item)
                      THEN [counted EXCEPT !.rag = @ + tokens]
                      ELSE counted

\* The usage of the removed items replacing the delta instead of adding to it.
SubtractUsage_Assign(delta, removed) ==
    [delta EXCEPT !.userInput = 0 - removed.userInput,
                  !.agentOutput = 0 - removed.agentOutput,
                  !.tools = 0 - removed.tools,
                  !.rag = 0 - removed.rag]

\* delta minus the usage of the removed items, in the four context buckets.
SubtractUsage(delta, removed) ==
    [delta EXCEPT !.userInput = @ - removed.userInput,
                  !.agentOutput = @ - removed.agentOutput,
                  !.tools = @ - removed.tools,
                  !.rag = @ - removed.rag]

\* ------------------------------------------------------- windowing function
\* The backward scan stopping one user item too late.
RECURSIVE ScanBack_OneMore(_, _, _, _)
ScanBack_OneMore(items, i, count, keep) ==
    IF i = 0 THEN [count |-> count, start |-> 1]
    ELSE IF IsUserMsg(items[i])
         THEN IF count = keep THEN [count |-> count, start |-> i]
              ELSE ScanBack_OneMore(items, i - 1, count + 1, keep)
         ELSE ScanBack_OneMore(items, i - 1, count, keep)

\* The backward scan of _trim_to_last_turns: the number of user items seen and
\* the index (1-based; 1 when the scan never reaches `keep`) where it stopped.
RECURSIVE ScanBack(_, _, _, _)
ScanBack(items, i, count, keep) ==
    IF i = 0 THEN [count |-> count, start |-> 1]
    ELSE IF IsUserMsg(items[i])
         THEN IF count + 1 = keep THEN [count |-> count + 1, start |-> i]
              ELSE ScanBack(items, i - 1, count + 1, keep)
         ELSE ScanBack(items, i - 1, count, keep)

\* The window cut from the wrong end: items[:n] for items[start_idx:].
TrimToLastTurns_KeepHead(items, max_turns, keep, force_trim) ==
    IF items = <<>> THEN [trimmed |-> items, total |-> 0]
    ELSE LET total_turns == CountUserTurns(items)
         IN  IF ~force_trim /\ total_turns < max_turns
             THEN [trimmed |-> items, total |-> total_turns]
             ELSE LET scan == ScanBack(items, Len(items), 0, keep)
                  IN  [trimmed |-> IF scan.count >= keep
                                   THEN SubSeq(items, 1, Len(items) - (scan.start - 1))
                                   ELSE items,
                       total |-> total_turns]

\* The window that also drops the newest item when it cuts.
TrimToLastTurns_DropNewest(items, max_turns, keep, force_trim) ==
    IF items = <<>> THEN [trimmed |-> items, total |-> 0]
    ELSE LET total_turns == CountUserTurns(items)
         IN  IF ~force_trim /\ total_turns < max_turns
             THEN [trimmed |-> items, total |-> total_turns]
             ELSE LET scan == ScanBack(items, Len(items), 0, keep)
                  IN  [trimmed |-> IF scan.count >= keep /\ scan.start > 1
                                   THEN SubSeq(items, scan.start, Len(items) - 1)
                                   ELSE items,
                       total |-> total_turns]

TrimToLastTurns(items, max_turns, keep, force_trim) ==
    IF items = <<>> THEN [trimmed |-> items, total |-> 0]
    ELSE LET total_turns == CountUserTurns(items)
         IN  IF ~force_trim /\ total_turns < max_turns
             THEN [trimmed |-> items, total |-> total_turns]
             ELSE LET scan == ScanBack(items, Len(items), 0, keep)
                  IN  [trimmed |-> IF scan.count >= keep
                                   THEN DropFirst(items, scan.start - 1)
                                   ELSE items,
                       total |-> total_turns]

\* ------------------------------------------------------------ the sessions
NoSession == [kind |-> "none"]
NoSummary == [shadow_line |-> "", summary_text |-> "", present |-> FALSE]

NewSession(kind, max_turns, keep) ==
    [kind |-> kind,
     items |-> <<>>,
     counter |-> 0,
     max_turns |-> max_turns,
     keep_last_n_turns |-> keep,
     delta |-> ZeroUsage,
     did_trim |-> FALSE,
     did_summarize |-> FALSE,
     last_summary |-> NoSummary,
     did_compact |-> FALSE,
     pending_tools_delta |-> 0,
     trigger_turns |-> 0,
     keep |-> 0,
     exclude_tools |-> {},
     clear_tool_inputs |-> FALSE]

\* TrimmingSession.__init__; keep = -1 stands for keep_last_n_turns=None.
TrimmingSession(max_turns, keep) ==
    LET m == Max(1, max_turns)
        k == IF keep = -1 THEN m ELSE keep
    IN  NewSession("trimming", m, Min(Max(1, k), m))

DefaultSession == NewSession("default", 0, 0)

\* The internalTurnCounter setter.
SetCounter(s, value) == [s EXCEPT !.counter = Max(0, value)]

\* TrimmingSession.get_items(limit); limit = -1 stands for limit=None.
TrimmingGetItems(s, limit) ==
    LET trimmed == TrimToLastTurns(s.items, s.max_turns, s.keep_last_n_turns, FALSE).trimmed
    IN  IF limit >= 0 THEN LastN(trimmed, limit) ELSE trimmed

\* add_items that stores without windowing.
TrimmingAddItems_NoWindow(s, items) ==
    IF items = <<>> THEN s
    ELSE [s EXCEPT !.items = @ \o items, !.counter = @ + CountUserTurns(items),
                   !.did_trim = FALSE]

\* The locked body of add_items that leaves the counter at its counted value
\* when it removes items.
TrimmingStore_KeepCount(s, items) ==
    LET pending == s.items \o items
        counted == s.counter + CountUserTurns(items)
        trimmed == TrimToLastTurns(pending, s.max_turns, s.keep_last_n_turns,
                                   counted >= s.max_turns).trimmed
    IN  IF Len(trimmed) < Len(pending)
        THEN [s EXCEPT
                !.items = trimmed,
                !.did_trim = TRUE,
                !.counter = counted,
                !.delta = SubtractUsage(@, EstimateUsageForItems(
                              SubSeq(pending, 1, Len(pending) - Len(trimmed))))]
        ELSE [s EXCEPT !.items = trimmed, !.counter = counted, !.did_trim = FALSE]

\* The locked body of TrimmingSession.add_items: count, append, window.
TrimmingStore(s, items) ==
    LET pending == s.items \o items
        counted == s.counter + CountUserTurns(items)
        should_trim == counted >= s.max_turns
        trimmed == TrimToLastTurns(pending, s.max_turns, s.keep_last_n_turns,
                                   should_trim).trimmed
    IN  IF Len(trimmed) < Len(pending)
        THEN LET removed_items == SubSeq(pending, 1, Len(pending) - Len(trimmed))
                 cut == [s EXCEPT
                           !.items = trimmed,
                           !.did_trim = TRUE,
                           !.delta = SubtractUsage(@, EstimateUsageForItems(removed_items))]
             IN  SetCounter(cut, Min(s.keep_last_n_turns, CountUserTurns(trimmed)))
        ELSE [s EXCEPT !.items = trimmed, !.counter = counted, !.did_trim = FALSE]

\* add_items without the early return on an empty batch.
TrimmingAddItems_NoEarlyReturn(s, items) == TrimmingStore(s, items)

TrimmingAddItems(s, items) ==
    IF items = <<>> THEN s ELSE TrimmingStore(s, items)

\* pop_item: the last item leaves; the turn counter is not touched.
PopItem(s) ==
    IF s.items = <<>> THEN s
    ELSE [s EXCEPT !.items = SubSeq(@, 1, Len(@) - 1)]

\* clear_session that leaves the turn counter as it is.
TrimmingClearSession_KeepCounter(s) ==
    [s EXCEPT !.items = <<>>, !.did_trim = FALSE, !.delta = ZeroUsage]

TrimmingClearSession(s) ==
    [s EXCEPT !.items = <<>>, !.did_trim = FALSE, !.delta = ZeroUsage, !.counter = 0]

\* The setters' tail that adjusts the counter and leaves the items as they are.
Rewindow_KeepAll(s, force_trim) ==
    LET trimmed == TrimToLastTurns(s.items, s.max_turns, s.keep_last_n_turns,
                                   force_trim).trimmed
    IN  IF Len(trimmed) < Len(s.items)
        THEN SetCounter([s EXCEPT !.did_trim = TRUE],
                        Min(s.keep_last_n_turns, CountUserTurns(trimmed)))
        ELSE SetCounter([s EXCEPT !.did_trim = FALSE], Min(s.counter, s.max_turns))

\* The tail shared by set_max_turns and set_keep_last_n_turns once the
\* parameters are in place: window the stored items, adjust the counter.
Rewindow(s, force_trim) ==
    LET trimmed == TrimToLastTurns(s.items, s.max_turns, s.keep_last_n_turns,
                                   force_trim).trimmed
    IN  IF Len(trimmed) < Len(s.items)
        THEN SetCounter([s EXCEPT !.items = trimmed, !.did_trim = TRUE],
                        Min(s.keep_last_n_turns, CountUserTurns(trimmed)))
        ELSE SetCounter([s EXCEPT !.items = trimmed, !.did_trim = FALSE],
                        Min(s.counter, s.max_turns))

\* set_max_turns that leaves keep_last_n_turns as it is.
TrimmingSetMaxTurns_NoClamp(s, max_turns) ==
    LET new_max == Max(1, max_turns)
    IN  IF new_max = s.max_turns
        THEN SetCounter(s, Min(s.counter, s.max_turns))
        ELSE Rewindow([s EXCEPT !.max_turns = new_max], FALSE)

TrimmingSetMaxTurns(s, max_turns) ==
    LET new_max == Max(1, max_turns)
    IN  IF new_max = s.max_turns
        THEN SetCounter([s EXCEPT !.keep_last_n_turns = Min(@, s.max_turns)],
                        Min(s.counter, s.max_turns))
        ELSE Rewindow([s EXCEPT !.max_turns = new_max,
                                !.keep_last_n_turns = Min(@, new_max)], FALSE)

TrimmingSetKeepLastNTurns(s, keep_last_n_turns) ==
    LET new_keep == Min(Max(1, keep_last_n_turns), s.max_turns)
    IN  IF new_keep = s.keep_last_n_turns
        THEN SetCounter(s, Min(s.counter, s.max_turns))
        ELSE Rewindow([s EXCEPT !.keep_last_n_turns = new_keep],
                      CountUserTurns(s.items) > new_keep)

\* -------------------------------------------------------- default session
\* DefaultSession.get_items(limit); limit = -1 stands for limit=None.
DefaultGetItems(s, limit) ==
    IF limit >= 0 THEN LastN(s.items, limit) ELSE s.items

DefaultAddItems(s, items) ==
    IF items = <<>> THEN s
    ELSE [s EXCEPT !.counter = @ + CountUserTurns(items), !.items = @ \o items]

DefaultClearSession(s) ==
    [s EXCEPT !.items = <<>>, !.delta = ZeroUsage, !.counter = 0]

\* set_max_turns that limits the turn counter as a Trimming session does.
DefaultSetMaxTurns_Limits(s, max_turns) ==
    SetCounter(s, Min(s.counter, Max(1, max_turns)))

DefaultSetMaxTurns(s, max_turns) == s

\* ---------------------------------------------------- summarizing session
\* SummarizingSession.__init__: TrimmingSession.__init__(max_turns=context_limit)
\* and then keep_last_n_turns = max(0, keep_last_n_turns).
SummarizingSession(keep_last_n_turns, context_limit) ==
    [TrimmingSession(context_limit, -1) EXCEPT
        !.kind = "summarizing",
        !.keep_last_n_turns = Max(0, keep_last_n_turns)]

ConfigureLimits(s, keep_last_n_turns, context_limit) ==
    [s EXCEPT !.keep_last_n_turns = Max(0, keep_last_n_turns),
              !.max_turns = Max(1, context_limit)]

\* What LLMSummarizer.summarize returns: the constant shadow line with the
\* text of the model's response, with no text (nothing to summarize, or an
\* empty response), or with the placeholder text when the request to the
\* model raised.  It never raises itself and never leaves out the shadow line.
LLMSummarizerAnswers ==
    { [raised |-> FALSE, shadow_line |-> SHADOW_LINE, summary_text |-> MODEL_SUMMARY],
      [raised |-> FALSE, shadow_line |-> SHADOW_LINE, summary_text |-> ""],
      [raised |-> FALSE, shadow_line |-> SHADOW_LINE, summary_text |-> UNAVAILABLE_SUMMARY] }

\* What the summarizer of a Summarizing session may answer: the session is
\* constructed with an LLMSummarizer or with any other summarizer object,
\* which may also return a text without a shadow line or raise an exception.
Outcomes ==
    LLMSummarizerAnswers \cup
    { [raised |-> FALSE, shadow_line |-> "", summary_text |-> MODEL_SUMMARY],
      [raised |-> TRUE, shadow_line |-> "", summary_text |-> ""] }

NoOutcome == [raised |-> FALSE, shadow_line |-> "", summary_text |-> ""]

\* The positions (1-based, ascending) of the user items.
UserIndices(items) ==
    SelectSeq([i \in 1..Len(items) |-> i], LAMBDA i : IsUserMsg(items[i]))

\* boundary_idx that leaves one more user turn in the suffix.
BoundaryIdx_OneMore(combined, keep) ==
    LET user_indices == UserIndices(combined)
        n == Len(user_indices)
        idx == IF keep <= 0 \/ keep >= n
               THEN (IF keep >= n THEN 0 ELSE Len(combined))
               ELSE user_indices[n - keep] - 1
    IN  Max(0, Min(idx, Len(combined)))

\* boundary_idx of SummarizingSession.add_items: the number of items of the prefix.
BoundaryIdx(combined, keep) ==
    LET user_indices == UserIndices(combined)
        n == Len(user_indices)
        idx == IF keep <= 0 \/ keep >= n
               THEN (IF keep >= n THEN 0 ELSE Len(combined))
               ELSE user_indices[n - keep + 1] - 1
    IN  Max(0, Min(idx, Len(combined)))

\* The usage of the removed items recorded with its sign.
NegatedUsage_Unsigned(removed) ==
    [ZeroUsage EXCEPT !.userInput = removed.userInput,
                      !.agentOutput = removed.agentOutput,
                      !.tools = removed.tools,
                      !.rag = removed.rag]

NegatedUsage(removed) ==
    [ZeroUsage EXCEPT !.userInput = 0 - removed.userInput,
                      !.agentOutput = 0 - removed.agentOutput,
                      !.tools = 0 - removed.tools,
                      !.rag = 0 - removed.rag]

\* The try/except around the summarizer call: the pair add_items goes on with.
Summarize_NoFallback(outcome) ==
    [shadow_line |-> IF outcome.raised THEN "" ELSE outcome.shadow_line,
     summary_text |-> IF outcome.raised THEN "" ELSE outcome.summary_text]

Summarize(outcome) ==
    IF outcome.raised
    THEN [shadow_line |-> SHADOW_LINE, summary_text |-> FALLBACK_SUMMARY]
    ELSE [shadow_line |-> outcome.shadow_line, summary_text |-> outcome.summary_text]

\* A summary stored in front of the items it was made from.
SummarizedItems_KeepPrefix(synthetic_items, prefix, suffix) ==
    synthetic_items \o prefix \o suffix

\* What add_items stores when it has a summary: the synthetic items replace
\* the prefix, the suffix follows unchanged.
SummarizedItems(synthetic_items, prefix, suffix) == synthetic_items \o suffix

\* add_items from the summarizer's answer on: builds the synthetic items and
\* stores them with the suffix (or the trimmed list when there is no summary).
\* call = [combined, prefix, suffix, no]; outcome is read only when the
\* summarizer was called (the prefix is not empty).
SummarizingFinish(s, call, outcome) ==
    LET combined == call.combined
        prefix == call.prefix
        suffix == call.suffix
        summary_triggered == prefix # <<>>
        answer == Summarize(outcome)
        shadow_line == IF summary_triggered THEN answer.shadow_line ELSE ""
        summary_text == IF summary_triggered THEN answer.summary_text ELSE ""
        has_summary == summary_triggered /\ summary_text # ""
        synthetic_items ==
            IF has_summary
            THEN (IF shadow_line # ""
                  THEN <<SyntheticItem("user", shadow_line, call.no)>> ELSE <<>>)
                 \o <<SyntheticItem("assistant", summary_text, call.no)>>
            ELSE <<>>
        summary_payload ==
            IF has_summary
            THEN [shadow_line |-> shadow_line, summary_text |-> summary_text,
                  present |-> TRUE]
            ELSE NoSummary
        fallback_trimmed ==
            IF synthetic_items = <<>>
            THEN TrimToLastTurns(combined, s.max_turns, s.keep_last_n_turns, FALSE).trimmed
            ELSE <<>>
        fallback_trimmed_changed ==
            synthetic_items = <<>> /\ Len(fallback_trimmed) < Len(combined)
        removed_items_for_delta ==
            IF prefix # <<>> THEN prefix
            ELSE IF fallback_trimmed_changed
                 THEN SubSeq(combined, 1, Len(combined) - Len(fallback_trimmed))
                 ELSE <<>>
        stored == IF synthetic_items # <<>>
                  THEN SummarizedItems(synthetic_items, prefix, suffix)
                  ELSE fallback_trimmed
        counter ==
            IF summary_triggered
            THEN Max(0, Min(CountUserTurns(suffix)
                            + (IF synthetic_items # <<>> THEN 1 ELSE 0), s.max_turns))
            ELSE IF fallback_trimmed_changed
                 THEN Max(0, Min(CountUserTurns(fallback_trimmed), s.max_turns))
                 ELSE s.counter
    IN  [s EXCEPT
            !.did_summarize = IF summary_triggered THEN TRUE ELSE @,
            !.last_summary = summary_payload,
            !.items = stored,
            !.delta = IF removed_items_for_delta # <<>>
                      THEN NegatedUsage(EstimateUsageForItems(removed_items_for_delta))
                      ELSE ZeroUsage,
            !.counter = counter]

\* should_summarize of SummarizingSession.add_items.
ShouldSummarize_Strict(turn_counter, max_turns) == turn_counter > max_turns

\* should_summarize firing one turn below the limit.
ShouldSummarize_OneBelow(turn_counter, max_turns) == turn_counter + 1 >= max_turns

ShouldSummarize(turn_counter, max_turns) == turn_counter >= max_turns

NoCall == [combined |-> <<>>, prefix |-> <<>>, suffix |-> <<>>, no |-> 0]

\* add_items up to the summarizer call.  The result is the session and, when
\* the call suspends in the summarizer, the call's locals.
SummarizingBegin(s, items, call_no) ==
    IF items = <<>> THEN [session |-> s, suspended |-> FALSE, call |-> NoCall]
    ELSE LET combined == s.items \o items
             counted == [s EXCEPT !.counter = @ + CountUserTurns(items)]
             should_summarize == ShouldSummarize(counted.counter, s.max_turns)
         IN  IF ~should_summarize
             THEN LET trimmed == TrimToLastTurns(combined, s.max_turns,
                                                 s.keep_last_n_turns, FALSE).trimmed
                      stored == [counted EXCEPT !.items = trimmed]
                  IN  [session |-> IF Len(trimmed) < Len(combined)
                                   THEN [stored EXCEPT !.counter =
                                            Max(0, Min(CountUserTurns(trimmed), s.max_turns))]
                                   ELSE stored,
                       suspended |-> FALSE, call |-> NoCall]
             ELSE LET boundary_idx == BoundaryIdx(combined, s.keep_last_n_turns)
                      call == [combined |-> combined,
                               prefix |-> SubSeq(combined, 1, boundary_idx),
                               suffix |-> DropFirst(combined, boundary_idx),
                               no |-> call_no]
                  IN  IF call.prefix # <<>>
                      THEN [session |-> counted, suspended |-> TRUE, call |-> call]
                      ELSE [session |-> SummarizingFinish(counted, call, NoOutcome),
                            suspended |-> FALSE, call |-> NoCall]

SummarizingClearSession(s) ==
    [TrimmingClearSession(s) EXCEPT !.last_summary = NoSummary]

\* get_last_summary(): the record, or NoSummary for None.
GetLastSummary(s) == s.last_summary

\* ----------------------------------------------------- compacting session
COMPACTED_PLACEHOLDER == "[compacted]"

\* TrackingCompactingSession(trigger=CompactionTrigger(turns), keep,
\* exclude_tools, clear_tool_inputs); trigger_turns = 0 stands for turns=None.
TrackingCompactingSession(trigger_turns, keep, exclude_tools, clear_tool_inputs) ==
    [NewSession("compacting", 0, 0) EXCEPT
        !.trigger_turns = trigger_turns,
        !.keep = keep,
        !.exclude_tools = exclude_tools,
        !.clear_tool_inputs = clear_tool_inputs]

\* TrackingCompactingSession._token_count.
TokenCount(item) ==
    IF item.compacted THEN 0 ELSE Max(0, EstimateTokensFromText(item.content))

\* A compaction whose delta counts the stored payload whatever its mark.
CompactToolItem_Recount(s, idx) ==
    LET before == s.items[idx]
        after == [before EXCEPT !.content = COMPACTED_PLACEHOLDER, !.compacted = TRUE]
        delta == TokenCount(after) - Max(0, EstimateTokensFromText(before.content))
    IN  [s EXCEPT !.items[idx] = after,
                  !.pending_tools_delta = IF delta < 0 THEN @ + delta ELSE @,
                  !.did_compact = TRUE]

\* _compact_tool_result / _compact_tool_call of the tracking session: the base
\* class replaces the payload by the placeholder and marks the item, then
\* _record_compaction_delta adds the token difference to the pending delta.
CompactToolItem(s, idx) ==
    LET before == s.items[idx]
        after == [before EXCEPT !.content = COMPACTED_PLACEHOLDER, !.compacted = TRUE]
        delta == TokenCount(after) - TokenCount(before)
    IN  [s EXCEPT !.items[idx] = after,
                  !.pending_tools_delta = IF delta < 0 THEN @ + delta ELSE @,
                  !.did_compact = TRUE]

RECURSIVE CompactUpTo(_, _)
CompactUpTo(s, idx) ==
    IF idx = 0 THEN s
    ELSE LET done == CompactUpTo(s, idx - 1)
             item == done.items[idx]
         IN  IF item.role = "tool" /\ ~item.compacted /\ item.name \notin s.exclude_tools
             THEN CompactToolItem(done, idx)
             ELSE done

\* CompactingSession.add_items: append, then once the trigger is met compact
\* the tool items older than the last `keep` turns.
CompactingBaseAddItems(s, items) ==
    LET stored == [s EXCEPT !.items = @ \o items]
        turns == CountUserTurns(stored.items)
        scan == ScanBack(stored.items, Len(stored.items), 0, s.keep)
    IN  IF s.trigger_turns > 0 /\ turns >= s.trigger_turns /\ scan.count >= s.keep
        THEN CompactUpTo(stored, scan.start - 1)
        ELSE stored

\* add_items that applies the pending tools delta and leaves it pending.
CompactingAddItems_KeepPending(s, items) ==
    IF items = <<>> THEN s
    ELSE LET base == CompactingBaseAddItems(s, items)
         IN  [base EXCEPT !.delta.tools = @ + Min(0, base.pending_tools_delta)]

CompactingAddItems(s, items) ==
    IF items = <<>> THEN s
    ELSE LET base == CompactingBaseAddItems(s, items)
             tools_delta == Min(0, base.pending_tools_delta)
         IN  [base EXCEPT !.delta.tools = @ + tools_delta,
                          !.pending_tools_delta = 0]

CompactingClearSession(s) ==
    [s EXCEPT !.items = <<>>, !.did_compact = FALSE,
              !.pending_tools_delta = 0, !.delta = ZeroUsage]

\* --------------------------------------------- the session contract, by kind
AddItems(s, items) ==
    CASE s.kind = "default" -> DefaultAddItems(s, items)
      [] s.kind = "trimming" -> TrimmingAddItems(s, items)
      [] s.kind = "compacting" -> CompactingAddItems(s, items)

GetItems(s) ==
    CASE s.kind \in {"trimming", "summarizing"} -> TrimmingGetItems(s, -1)
      [] OTHER -> DefaultGetItems(s, -1)

ClearSession(s) ==
    CASE s.kind = "default" -> DefaultClearSession(s)
      [] s.kind = "trimming" -> TrimmingClearSession(s)
      [] s.kind = "summarizing" -> SummarizingClearSession(s)
      [] s.kind = "compacting" -> CompactingClearSession(s)

SetMaxTurns(s, n) ==
    CASE s.kind = "default" -> DefaultSetMaxTurns(s, n)
      [] OTHER -> TrimmingSetMaxTurns(s, n)

\* ------------------------------------------------------- session registry
\* The defaults of _ensure_session and run_agent.
DefaultMemoryMaxTurns == 9
DefaultMemoryKeepTurns == 4
UntrimmedMaxTurns == 100
DefaultSummarizationKeepTurns == 3
DefaultSummarizationTriggerTurns == 5
DefaultCompactingKeepTurns == 2

\* `_positive_int(value) or default`; a missing config value is 0 here.
PositiveIntOr(value, default) == IF value <= 0 THEN default ELSE value

\* A run's config: the policy switches and the two turn parameters of the
\* enabled policy (memoryMaxTurns / summarizationTriggerTurns /
\* compactingTriggerTurns, and the matching keep value).
Config(policy, max_turns, keep_turns) ==
    [memorySummarization |-> policy = "summarizing",
     memoryCompacting |-> policy = "compacting",
     memoryTrimming |-> policy = "trimming",
     memoryMaxTurns |-> IF policy = "trimming" THEN max_turns ELSE 0,
     memoryKeepRecentTurns |-> IF policy = "trimming" THEN keep_turns ELSE 0,
     summarizationTriggerTurns |-> IF policy = "summarizing" THEN max_turns ELSE 0,
     summarizationKeepRecentTurns |-> IF policy = "summarizing" THEN keep_turns ELSE 0,
     compactingTriggerTurns |-> IF policy = "compacting" THEN max_turns ELSE 0,
     compactingKeepTurns |-> IF policy = "compacting" THEN keep_turns ELSE 0,
     compactingExcludeTools |-> {},
     compactingClearToolInputs |-> FALSE]

\* _ensure_session: the session registered for the id after the call.
\* isinstance(existing, TrimmingSession) also holds for a SummarizingSession.
EnsureSession(existing, config) ==
    IF config.memorySummarization
    THEN LET keep_turns == PositiveIntOr(config.summarizationKeepRecentTurns,
                                         DefaultSummarizationKeepTurns)
             context_limit == Max(PositiveIntOr(config.summarizationTriggerTurns,
                                                DefaultSummarizationTriggerTurns),
                                  keep_turns)
         IN  IF existing.kind # "summarizing"
             THEN SummarizingSession(keep_turns, context_limit)
             ELSE ConfigureLimits(existing, keep_turns, context_limit)
    ELSE IF config.memoryCompacting
    THEN LET keep_turns == PositiveIntOr(config.compactingKeepTurns,
                                         DefaultCompactingKeepTurns)
             trigger == PositiveIntOr(config.compactingTriggerTurns, 0)
         IN  IF existing.kind # "compacting"
             THEN TrackingCompactingSession(trigger, keep_turns,
                                            config.compactingExcludeTools,
                                            config.compactingClearToolInputs)
             ELSE [existing EXCEPT
                     !.trigger_turns = trigger,
                     !.keep = keep_turns,
                     !.exclude_tools = config.compactingExcludeTools,
                     !.clear_tool_inputs = config.compactingClearToolInputs]
    ELSE IF config.memoryTrimming
    THEN LET max_turns == PositiveIntOr(config.memoryMaxTurns, DefaultMemoryMaxTurns)
             keep_turns == Min(PositiveIntOr(config.memoryKeepRecentTurns,
                                             DefaultMemoryKeepTurns), max_turns)
         IN  IF existing.kind \notin {"trimming", "summarizing"}
             THEN TrimmingSession(max_turns, keep_turns)
             ELSE [existing EXCEPT !.max_turns = max_turns,
                                   !.keep_last_n_turns = keep_turns]
    ELSE IF existing.kind # "default" THEN DefaultSession ELSE existing

\* Whether _ensure_session leaves the object registered under the id in
\* place (and reconfigures it) instead of registering a new one.
EnsureKeepsInstance(existing, config) ==
    IF config.memorySummarization THEN existing.kind = "summarizing"
    ELSE IF config.memoryCompacting THEN existing.kind = "compacting"
    ELSE IF config.memoryTrimming THEN existing.kind \in {"trimming", "summarizing"}
    ELSE existing.kind = "default"

\* The variant a config selects in _ensure_session.
Selected(config) ==
    IF config.memorySummarization THEN "summarizing"
    ELSE IF config.memoryCompacting THEN "compacting"
    ELSE IF config.memoryTrimming THEN "trimming"
    ELSE "default"

\* configure_trimming_sessions for one id; -1 stands for an absent
\* max_turns / keep_last.
ConfigureTrimmingSessions(existing, enable, max_turns, keep_last) ==
    LET default_max_turns == IF max_turns # -1 THEN Max(1, max_turns)
                             ELSE DefaultMemoryMaxTurns
        default_keep_last == Min(IF keep_last # -1 THEN Max(1, keep_last)
                                 ELSE DefaultMemoryKeepTurns, default_max_turns)
    IN  IF enable THEN TrimmingSession(default_max_turns, default_keep_last)
        ELSE DefaultSession

\* configure_summarizing_sessions for one id.
ConfigureSummarizingSessions(existing, enable, max_turns, keep_last) ==
    LET default_keep_last == IF keep_last # -1 THEN Max(1, keep_last)
                             ELSE DefaultSummarizationKeepTurns
        default_context_limit ==
            Max(IF max_turns # -1 THEN Max(1, max_turns)
                ELSE DefaultSummarizationTriggerTurns, default_keep_last)
    IN  IF enable
        THEN (IF existing.kind = "summarizing"
              THEN ConfigureLimits(existing, default_keep_last, default_context_limit)
              ELSE SummarizingSession(default_keep_last, default_context_limit))
        ELSE DefaultSession

\* configure_compacting_sessions for one id (no excluded tools).
ConfigureCompactingSessions(existing, enable, trigger_turns, keep) ==
    IF enable
    THEN TrackingCompactingSession(PositiveIntOr(trigger_turns, 0),
                                   PositiveIntOr(keep, DefaultCompactingKeepTurns),
                                   {}, FALSE)
    ELSE DefaultSession

\* What the loop of a configure_* command makes of the session of one
\* identifier, and whether that is the object already registered (kept).  A
\* command carries its type, enable, turns (max_turns, or the turns of the
\* trigger) and keep (keep_last, or keep).
Configured(existing, command) ==
    [session |->
        IF command.type = "configure_trimming"
        THEN ConfigureTrimmingSessions(existing, command.enable, command.turns, command.keep)
        ELSE IF command.type = "configure_summarization"
        THEN ConfigureSummarizingSessions(existing, command.enable, command.turns,
                                          command.keep)
        ELSE ConfigureCompactingSessions(existing, command.enable, command.turns,
                                         command.keep),
     kept |-> /\ command.type = "configure_summarization"
              /\ command.enable
              /\ existing.kind = "summarizing"]

\* run_agent from its start to the runner call, for a session that is not a
\* SummarizingSession: the registry lookup, the per-run flags, the limits
\* handed to set_max_turns / set_keep_last_n_turns, and the rehydration of an
\* empty session from the history.
RunAgentPrepare(existing, config, history) ==
    LET ensured == EnsureSession(existing, config)
        session == [ensured EXCEPT !.did_trim = FALSE, !.did_summarize = FALSE,
                                   !.did_compact = FALSE, !.pending_tools_delta = 0]
        max_turns == IF config.memoryTrimming
                     THEN PositiveIntOr(config.memoryMaxTurns, DefaultMemoryMaxTurns)
                     ELSE UntrimmedMaxTurns
        keep_last == Min(PositiveIntOr(config.memoryKeepRecentTurns,
                                       DefaultMemoryKeepTurns), max_turns)
        limited == IF session.kind = "trimming"
                   THEN TrimmingSetKeepLastNTurns(TrimmingSetMaxTurns(session, max_turns),
                                                  keep_last)
                   ELSE session
    IN  IF GetItems(limited) = <<>>
        THEN AddItems(ClearSession(limited), history)
        ELSE limited

AddUsage(x, y) ==
    [userInput |-> x.userInput + y.userInput,
     agentOutput |-> x.agentOutput + y.agentOutput,
     tools |-> x.tools + y.tools,
     memory |-> x.memory + y.memory,
     rag |-> x.rag + y.rag,
     basePrompt |-> x.basePrompt + y.basePrompt]

\* The usage delta one add_items call records in _last_context_delta_usage:
\* a Summarizing call that reaches the summarization branch stores a delta, a
\* Trimming or Compacting call adds one to the pending delta.
RecordedBy(s, items, after) ==
    IF s.kind = "summarizing"
    THEN IF items # <<>>
            /\ ShouldSummarize(s.counter + CountUserTurns(items), s.max_turns)
         THEN after.delta ELSE ZeroUsage
    ELSE AddUsage(after.delta, NegatedUsage(s.delta))

\* session.add_items as run_agent and the runner call it, from the call to
\* its return, the summarizer answering `outcome` when it is called: the
\* session afterwards, what the call recorded, and whether the summarizer
\* was called.
SessionAdd(s, items, outcome, call_no) ==
    LET r == IF s.kind = "summarizing" THEN SummarizingBegin(s, items, call_no)
             ELSE [session |-> AddItems(s, items), suspended |-> FALSE, call |-> NoCall]
        after == IF r.suspended THEN SummarizingFinish(r.session, r.call, outcome)
                 ELSE r.session
    IN  [session |-> after,
         recorded |-> RecordedBy(s, items, after),
         summarizer_calls |-> IF r.suspended THEN 1 ELSE 0]

\* run_agent from the registry lookup to the limits handed to the setters.
RunAgentSession(existing, config) ==
    LET ensured == EnsureSession(existing, config)
        session == [ensured EXCEPT !.did_trim = FALSE, !.did_summarize = FALSE,
                                   !.did_compact = FALSE, !.pending_tools_delta = 0]
        max_turns == IF config.memoryTrimming
                     THEN PositiveIntOr(config.memoryMaxTurns, DefaultMemoryMaxTurns)
                     ELSE UntrimmedMaxTurns
        keep_last == Min(PositiveIntOr(config.memoryKeepRecentTurns,
                                       DefaultMemoryKeepTurns), max_turns)
    IN  IF session.kind = "trimming"
        THEN TrimmingSetKeepLastNTurns(TrimmingSetMaxTurns(session, max_turns), keep_last)
        ELSE session

\* What run_agent adds to token_usage from the session's pending delta.
ReportedDelta(delta) ==
    [ZeroUsage EXCEPT !.userInput = delta.userInput, !.agentOutput = delta.agentOutput,
                      !.tools = delta.tools, !.rag = delta.rag]

\* ------------------------------------------------------------------ actions
NoOp == [op |-> "init", agent |-> "", new |-> <<>>, outcome |-> NoOutcome]

Did(op, a, new, outcome) ==
    last' = [op |-> op, agent |-> a, new |-> new, outcome |-> outcome]

\* Nothing recorded, nothing reported.
NoLedger == [recorded |-> ZeroUsage, reported |-> ZeroUsage]

\* log: the non-empty add_items calls made so far, as long as nothing else
\* was called since the session was constructed.
FreshLog == [pure |-> TRUE, adds |-> <<>>]
Logged(new) ==
    log' = [log EXCEPT !.adds = IF log.pure /\ new # <<>> THEN Append(@, new) ELSE @]
Unlogged == log' = [pure |-> FALSE, adds |-> <<>>]

\* No object is registered under the identifier.
NoInstance == 0

\* The registry: under each identifier the state of the object registered
\* there, and which object it is.
Registry == [sessions |-> SESSIONS, instances |-> instances]

\* The identity of an object that is being constructed while `a` is assigned:
\* one that no object has which is registered under another identifier or
\* is held by a suspended add_items call.
NewInstance(reg, a) ==
    LET live == {reg.instances[b] : b \in DOMAIN reg.instances \ {a}}
                \cup {calls[i].self : i \in DOMAIN calls}
    IN  CHOOSE p \in 1..(MaxId + 2) :
            p \notin live /\ \A q \in 1..(p - 1) : q \in live

\* The registry once the session of `a` is in state s.  When it is the
\* object already registered there (kept), every identifier that object is
\* registered under shows the state; otherwise SESSIONS[agent_id] = session
\* has registered a new object under `a` alone.
Assigned(reg, a, s, kept) ==
    IF kept
    THEN [reg EXCEPT !.sessions =
            [b \in DOMAIN reg.sessions |->
                IF reg.instances[b] = reg.instances[a] THEN s ELSE reg.sessions[b]]]
    ELSE [sessions |-> [reg.sessions EXCEPT ![a] = s],
          instances |-> [reg.instances EXCEPT ![a] = NewInstance(reg, a)]]

\* An operation on the session object registered under `a` leaves it in
\* state s.
Update(a, s) == SESSIONS' = Assigned(Registry, a, s, TRUE).sessions

\* The registry is left as `reg`.
Register(reg) == SESSIONS' = reg.sessions /\ instances' = reg.instances

\* The host calls the session operations one at a time.
Idle == calls = <<>>

\* add_items on a Default, Trimming or tracking Compacting session.
AddStep(a, batch) ==
    /\ SESSIONS[a].kind \in {"default", "trimming", "compacting"}
    /\ nextId + Len(batch) <= MaxId
    /\ LET new == MkBatch(batch, nextId)
       IN  /\ Update(a, AddItems(SESSIONS[a], new))
           /\ Did("add_items", a, new, NoOutcome)
           /\ Logged(new)
    /\ nextId' = nextId + Len(batch)
    /\ UNCHANGED <<instances, ledger, calls, summarizerCalls>>

\* add_items called by a host that makes one call at a time.
Add(a, batch) == Idle /\ AddStep(a, batch)

\* add_items on a Summarizing session, up to the summarizer call (or to the
\* end when the summarizer is not called).
SummAddStep(a, batch) ==
    /\ SESSIONS[a].kind = "summarizing"
    /\ nextId + Len(batch) <= MaxId
    /\ LET new == MkBatch(batch, nextId)
           r == SummarizingBegin(SESSIONS[a], new, summarizerCalls + 1)
       IN  /\ Update(a, r.session)
           /\ calls' = IF r.suspended
                       THEN Append(calls, [agent |-> a, new |-> new, call |-> r.call,
                                           self |-> instances[a]])
                       ELSE calls
           /\ summarizerCalls' = IF r.suspended THEN summarizerCalls + 1
                                 ELSE summarizerCalls
           /\ Did(IF r.suspended THEN "summarize" ELSE "add_items", a, new, NoOutcome)
           /\ Logged(new)
    /\ nextId' = nextId + Len(batch)
    /\ UNCHANGED <<instances, ledger>>

\* add_items called by a host that makes one call at a time.
SummAdd(a, batch) == Idle /\ SummAddStep(a, batch)

\* calls without its i-th element.
Without(seq, i) == SubSeq(seq, 1, i - 1) \o SubSeq(seq, i + 1, Len(seq))

\* The suspended call c runs to its end on the session object it was made
\* on (c.self).  The registry shows it where that object is still
\* registered, and nowhere when another object has taken its place.
FinishCall(c, outcome) ==
    LET holders == {b \in DOMAIN instances : instances[b] = c.self}
    IN  IF holders = {} THEN UNCHANGED SESSIONS
        ELSE \E b \in {CHOOSE b \in holders : TRUE} :
                Update(b, SummarizingFinish(SESSIONS[b], c.call, outcome))

\* The summarizer answers (or raises) the i-th suspended call.
SummFinishAt(i, outcome) ==
    /\ i \in DOMAIN calls
    /\ LET c == calls[i]
       IN  /\ FinishCall(c, outcome)
           /\ Did("add_items", c.agent, c.new, outcome)
    /\ calls' = Without(calls, i)
    /\ UNCHANGED <<instances, ledger, summarizerCalls, nextId, log>>

\* The i-th suspended call is cancelled at its await: CancelledError is not
\* an Exception, so it leaves add_items without passing the except clause.
SummCancel(i) ==
    /\ i \in DOMAIN calls
    /\ Did("cancelled", calls[i].agent, calls[i].new, NoOutcome)
    /\ calls' = Without(calls, i)
    /\ UNCHANGED <<instances, ledger, SESSIONS, summarizerCalls, nextId, log>>

\* The summarizer answers (or raises) and add_items runs to its end.
SummFinish(outcome) ==
    /\ calls # <<>>
    /\ LET c == Head(calls)
       IN  /\ FinishCall(c, outcome)
           /\ Did("add_items", c.agent, c.new, outcome)
    /\ calls' = Tail(calls)
    /\ UNCHANGED <<instances, ledger, summarizerCalls, nextId, log>>

PopStep(a) ==
    /\ SESSIONS[a].kind # "none"
    /\ Update(a, PopItem(SESSIONS[a]))
    /\ Did("pop_item", a, <<>>, NoOutcome)
    /\ Unlogged
    /\ UNCHANGED <<instances, ledger, calls, summarizerCalls, nextId>>

\* pop_item called by a host that makes one call at a time.
Pop(a) == Idle /\ PopStep(a)

ClearStep(a) ==
    /\ SESSIONS[a].kind # "none"
    /\ Update(a, ClearSession(SESSIONS[a]))
    /\ Did("clear_session", a, <<>>, NoOutcome)
    /\ Unlogged
    /\ UNCHANGED <<instances, ledger, calls, summarizerCalls, nextId>>

\* clear_session called by a host that makes one call at a time.
Clear(a) == Idle /\ ClearStep(a)

SetMax(a, n) ==
    /\ Idle
    /\ SESSIONS[a].kind \in {"default", "trimming"}
    /\ Update(a, SetMaxTurns(SESSIONS[a], n))
    /\ Did("set_max_turns", a, <<>>, NoOutcome)
    /\ Unlogged
    /\ UNCHANGED <<instances, ledger, calls, summarizerCalls, nextId>>

SetKeep(a, n) ==
    /\ Idle
    /\ SESSIONS[a].kind = "trimming"
    /\ Update(a, TrimmingSetKeepLastNTurns(SESSIONS[a], n))
    /\ Did("set_keep_last_n_turns", a, <<>>, NoOutcome)
    /\ Unlogged
    /\ UNCHANGED <<instances, ledger, calls, summarizerCalls, nextId>>

\* set_max_turns on a Summarizing session, which inherits it from
\* TrimmingSession; it takes the session lock, which is free while an
\* add_items call awaits the summarizer.
SummSetMax(a, n) ==
    /\ SESSIONS[a].kind = "summarizing"
    /\ Update(a, TrimmingSetMaxTurns(SESSIONS[a], n))
    /\ Did("set_max_turns", a, <<>>, NoOutcome)
    /\ Unlogged
    /\ UNCHANGED <<instances, ledger, calls, summarizerCalls, nextId>>

\* set_keep_last_n_turns on a Summarizing session, inherited likewise.
SummSetKeep(a, n) ==
    /\ SESSIONS[a].kind = "summarizing"
    /\ Update(a, TrimmingSetKeepLastNTurns(SESSIONS[a], n))
    /\ Did("set_keep_last_n_turns", a, <<>>, NoOutcome)
    /\ Unlogged
    /\ UNCHANGED <<instances, ledger, calls, summarizerCalls, nextId>>

\* run_agent up to the runner call (sessions that are not summarizing).
RunAgentBegin(a, config, batch) ==
    /\ Idle
    /\ ~config.memorySummarization
    /\ SESSIONS[a].kind # "summarizing"
    /\ LET history == MkBatch(batch, nextId)
           session == RunAgentPrepare(SESSIONS[a], config, history)
           used == session.items # <<>> /\ session.items[Len(session.items)].id > nextId
       IN  /\ nextId + Len(batch) <= MaxId
           /\ Register(Assigned(Registry, a, session,
                                EnsureKeepsInstance(SESSIONS[a], config)))
           /\ Did("run_agent", a, IF used THEN history ELSE <<>>, NoOutcome)
           /\ nextId' = IF used THEN nextId + Len(batch) ELSE nextId
    /\ Unlogged
    /\ UNCHANGED <<ledger, calls, summarizerCalls>>

\* _ensure_session alone: the registry looks the id up and reconfigures the
\* object it finds, or registers a new one.
EnsureStep(a, config) ==
    /\ Register(Assigned(Registry, a, EnsureSession(SESSIONS[a], config),
                         EnsureKeepsInstance(SESSIONS[a], config)))
    /\ Did("ensure_session", a, <<>>, NoOutcome)
    /\ Unlogged
    /\ UNCHANGED <<ledger, calls, summarizerCalls, nextId>>

\* _ensure_session called by a host that makes one call at a time.
Ensure(a, config) == Idle /\ EnsureStep(a, config)

\* A configure_* command that constructs one session before its loop and
\* registers it under every identifier of the list.
ConfigureSessions_OneSession(reg, agent_ids, command) ==
    IF agent_ids = <<>> THEN reg
    ELSE LET first == agent_ids[1]
             one == Assigned(reg, first, Configured(reg.sessions[first], command).session,
                             FALSE)
             named == {agent_ids[n] : n \in DOMAIN agent_ids}
         IN  [sessions |-> [b \in DOMAIN reg.sessions |->
                              IF b \in named THEN one.sessions[first]
                              ELSE reg.sessions[b]],
              instances |-> [b \in DOMAIN reg.instances |->
                               IF b \in named THEN one.instances[first]
                               ELSE reg.instances[b]]]

\* The loop of configure_trimming_sessions, configure_summarizing_sessions
\* and configure_compacting_sessions over the identifiers of the command:
\* each iteration looks up, constructs or reconfigures, and assigns the
\* session of one identifier.  after[n] is the registry after n iterations.
ConfigureSessions(reg, agent_ids, command) ==
    LET after[n \in 0..Len(agent_ids)] ==
            IF n = 0 THEN reg
            ELSE LET made == Configured(after[n - 1].sessions[agent_ids[n]], command)
                 IN  Assigned(after[n - 1], agent_ids[n], made.session, made.kept)
    IN  after[Len(agent_ids)]

\* The configure_trimming / configure_summarization / configure_compacting
\* commands of handle_command, for a non-empty list of identifiers.  `last`
\* names the identifier when the command names one.
ConfigureStep(agent_ids, command) ==
    /\ agent_ids # <<>>
    /\ Register(ConfigureSessions(Registry, agent_ids, command))
    /\ Did(command.type, IF Len(agent_ids) = 1 THEN agent_ids[1] ELSE "", <<>>, NoOutcome)
    /\ Unlogged
    /\ UNCHANGED <<ledger, calls, summarizerCalls, nextId>>

\* The commands for one identifier, from a host that makes one call at a
\* time.
ConfigureTrimming(a, enable, max_turns, keep_last) ==
    Idle /\ ConfigureStep(<<a>>, [type |-> "configure_trimming", enable |-> enable,
                                  turns |-> max_turns, keep |-> keep_last])

\* configure_summarizing_sessions reconfigures a registered Summarizing
\* session in place when it enables the policy.
ConfigureSummarization(a, enable, max_turns, keep_last) ==
    Idle /\ ConfigureStep(<<a>>, [type |-> "configure_summarization", enable |-> enable,
                                  turns |-> max_turns, keep |-> keep_last])

ConfigureCompacting(a, enable, trigger_turns, keep) ==
    Idle /\ ConfigureStep(<<a>>, [type |-> "configure_compacting", enable |-> enable,
                                  turns |-> trigger_turns, keep |-> keep])

\* The reset command: SESSIONS.clear().
Reset ==
    /\ Idle
    /\ SESSIONS' = [a \in AgentIds |-> NoSession]
    /\ instances' = [a \in AgentIds |-> NoInstance]
    /\ Did("reset", "", <<>>, NoOutcome)
    /\ Unlogged
    /\ UNCHANGED <<ledger, calls, summarizerCalls, nextId>>

\* A whole run_agent call: the session is looked up and limited, rehydrated
\* from `history` when it is empty, the runner adds the user's message and
\* the agent's answer to it (or raises before it does), and the pending delta
\* is added to the run's token usage and reset.  The summarizer answers the
\* add_items calls that reach it.
RunAgent(a, config, history, input, raises) ==
    /\ Idle
    /\ input # <<>> /\ input[1] = "user"
    /\ \E limited \in {RunAgentSession(SESSIONS[a], config)} :
       \E rehydrate \in {GetItems(limited) = <<>>} :
       \E hist \in {IF rehydrate THEN MkBatch(history, nextId) ELSE <<>>} :
       \E new_items \in {IF raises THEN <<>> ELSE MkBatch(input, nextId + Len(hist))} :
          /\ nextId + Len(hist) + Len(input) <= MaxId
          /\ \E first \in {SessionAdd(IF rehydrate THEN ClearSession(limited) ELSE limited,
                                       hist, o, summarizerCalls + 1) : o \in LLMSummarizerAnswers} :
             \E second \in {SessionAdd(first.session, new_items, o,
                                        summarizerCalls + first.summarizer_calls + 1) :
                             o \in LLMSummarizerAnswers} :
                /\ Register(Assigned(Registry, a,
                                     IF raises THEN second.session
                                     ELSE [second.session EXCEPT !.delta = ZeroUsage],
                                     EnsureKeepsInstance(SESSIONS[a], config)))
                /\ summarizerCalls' = summarizerCalls + first.summarizer_calls
                                                      + second.summarizer_calls
                /\ ledger' =
                      [recorded |-> AddUsage(ledger.recorded,
                                             AddUsage(first.recorded, second.recorded)),
                       reported |-> IF raises THEN ledger.reported
                                    ELSE AddUsage(ledger.reported,
                                                  ReportedDelta(second.session.delta))]
          /\ Did(IF raises THEN "run_agent_raised" ELSE "run_agent_finished",
                 a, hist \o new_items, NoOutcome)
          /\ nextId' = nextId + Len(hist) + Len(new_items)
    /\ Unlogged
    /\ UNCHANGED calls

ParamInputs == 0..MaxParam

\* The conversation histories a run may carry.
Histories == {<<>>, <<"user", "assistant">>}

Start(s) ==
    /\ SESSIONS = [a \in AgentIds |-> s]
    /\ instances = [a \in AgentIds |-> IF s = NoSession THEN NoInstance ELSE 1]
    /\ calls = <<>>
    /\ summarizerCalls = 0
    /\ nextId = 0
    /\ log = FreshLog
    /\ last = NoOp
    /\ ledger = NoLedger

InitTrim == \E m \in ParamInputs, k \in ParamInputs \cup {-1} : Start(TrimmingSession(m, k))

InitSumm == \E k \in ParamInputs, l \in ParamInputs : Start(SummarizingSession(k, l))

InitCompact ==
    \E t \in {0, 1, 2}, k \in {1, 2}, x \in {{}, {"SearchPolicy"}} :
        Start(TrackingCompactingSession(t, k, x, FALSE))

Init == InitTrim \/ InitSumm \/ InitCompact \/ Start(DefaultSession)

\* The session contract: add_items, pop_item, clear_session and the two setters.
NextCalls ==
    \E a \in AgentIds :
        \/ \E batch \in Batches : Add(a, batch)
        \/ Pop(a)
        \/ Clear(a)
        \/ \E n \in ParamInputs : SetMax(a, n)
        \/ \E n \in ParamInputs : SetKeep(a, n)

\* The contract, and runs that reconfigure the session through the registry.
NextTrim ==
    \/ NextCalls
    \/ \E a \in AgentIds, m \in ParamInputs, k \in ParamInputs, history \in Histories :
          RunAgentBegin(a, Config("trimming", m, k), history)

\* A Summarizing session driven by add_items, pop_item and clear_session.
NextSumm ==
    \/ \E a \in AgentIds :
        \/ \E batch \in Batches : SummAdd(a, batch)
        \/ Pop(a)
        \/ Clear(a)
    \/ \E outcome \in Outcomes : SummFinish(outcome)

Next == NextTrim \/ NextSumm

\* Every session variant, driven through the session contract.
Spec == Init /\ [][Next]_vars

\* A Trimming session.
SpecTrim == InitTrim /\ [][NextTrim]_vars

\* A Summarizing session.
SpecSumm == InitSumm /\ [][NextSumm]_vars

\* A Summarizing session driven by every operation it has: add_items,
\* pop_item, clear_session and the two setters it inherits, the setters also
\* while an add_items call is suspended.  The session receives at most
\* MaxId - 1 items.
NextSummCalls ==
    \/ \E a \in AgentIds :
          \/ \E batch \in Batches :
                nextId + Len(batch) <= MaxId - 1 /\ SummAdd(a, batch)
          \/ Pop(a)
          \/ Clear(a)
          \/ \E n \in ParamInputs : SummSetMax(a, n)
          \/ \E n \in ParamInputs : SummSetKeep(a, n)
    \/ \E outcome \in Outcomes : SummFinish(outcome)

SpecSummCalls == InitSumm /\ [][NextSummCalls]_vars

\* A Trimming session driven by add_items, pop_item and clear_session only.
NextTrimOps ==
    \E a \in AgentIds :
        \/ \E batch \in Batches : Add(a, batch)
        \/ Pop(a)
        \/ Clear(a)

SpecTrimOps == InitTrim /\ [][NextTrimOps]_vars

\* A Trimming session driven through the session contract.
SpecTrimCalls == InitTrim /\ [][NextCalls]_vars

\* The configs a run may carry: any combination of the three policy
\* switches, every policy reading the same two turn parameters.
RegistryConfigs ==
    {[Config("default", 0, 0) EXCEPT
        !.memorySummarization = f[1], !.memoryCompacting = f[2],
        !.memoryTrimming = f[3],
        !.memoryMaxTurns = m, !.memoryKeepRecentTurns = k,
        !.summarizationTriggerTurns = m, !.summarizationKeepRecentTurns = k,
        !.compactingTriggerTurns = m, !.compactingKeepTurns = k] :
     f \in [1..3 -> BOOLEAN], m \in ParamInputs, k \in ParamInputs}

\* What a command may carry for max_turns / keep_last (-1: absent).
CommandInputs == ParamInputs \cup {-1}

\* The registry: sessions are created on first reference, reconfigured by
\* later configs and commands, and used in between.
NextRegistry ==
    \/ \E a \in AgentIds, config \in RegistryConfigs : Ensure(a, config)
    \/ \E a \in AgentIds, enable \in BOOLEAN, m \in CommandInputs, k \in CommandInputs :
          \/ ConfigureTrimming(a, enable, m, k)
          \/ ConfigureSummarization(a, enable, m, k)
          \/ ConfigureCompacting(a, enable, m, k)
    \/ Reset
    \/ \E a \in AgentIds :
          \/ \E batch \in Batches : Add(a, batch) \/ SummAdd(a, batch)
          \/ Clear(a)
    \/ \E outcome \in LLMSummarizerAnswers : SummFinish(outcome)

SpecRegistry == Start(NoSession) /\ [][NextRegistry]_vars

\* Whole runs, one after the other, and reset commands in between.  The
\* config of a run switches one policy on, or none; the run carries a
\* history (also one longer than a turn), and the runner adds the user's
\* message and what the agent answered.
NextRuns ==
    \/ \E a \in AgentIds,
          policy \in {"default", "trimming", "summarizing", "compacting"},
          m \in ParamInputs, k \in ParamInputs,
          history \in Histories \cup {<<"user", "user">>},
          input \in {<<"user">>, <<"user", "assistant">>}, raises \in BOOLEAN :
          RunAgent(a, Config(policy, m, k), history, input, raises)
    \/ Reset

SpecRuns == Start(NoSession) /\ [][NextRuns]_vars

\* A tracking Compacting session: the session contract, and runs that
\* reconfigure the session through the registry.
NextCompact ==
    \/ \E a \in AgentIds :
          \/ \E batch \in Batches : Add(a, batch)
          \/ Pop(a)
          \/ Clear(a)
    \/ \E a \in AgentIds, m \in ParamInputs, k \in ParamInputs, history \in Histories :
          RunAgentBegin(a, Config("compacting", m, k), history)

SpecCompact == InitCompact /\ [][NextCompact]_vars

\* A Default session that is handed lists of items of every shape.
NextUsage ==
    \E a \in AgentIds :
        \/ \E batch \in UNION {[1..n -> UsageShapes] : n \in 1..MaxBatch} : Add(a, batch)
        \/ Clear(a)

SpecUsage == Start(DefaultSession) /\ [][NextUsage]_vars

\* Two identifiers, registered on first reference.
PairIds == {"a1", "a2"}

StartPair ==
    /\ SESSIONS = [a \in PairIds |-> NoSession]
    /\ instances = [a \in PairIds |-> NoInstance]
    /\ calls = <<>>
    /\ summarizerCalls = 0
    /\ nextId = 0
    /\ log = FreshLog
    /\ last = NoOp
    /\ ledger = NoLedger

\* The operations on the sessions of two identifiers, in any interleaving:
\* no operation waits for another, so that while add_items calls are
\* suspended in the summarizer either session may be used, reconfigured or
\* replaced.  The registry constructs its Summarizing sessions with an
\* LLMSummarizer.  The two sessions receive at most MaxId - 1 items together;
\* a command names one identifier or both, and every config and command
\* selects its policy with a limit of two turns keeping one.
NextPair ==
    \/ \E a \in PairIds,
          policy \in {"default", "trimming", "summarizing", "compacting"} :
          EnsureStep(a, Config(policy, 2, 1))
    \/ \E agent_ids \in {<<"a1">>, <<"a2">>, <<"a1", "a2">>}, enable \in BOOLEAN,
          type \in {"configure_trimming", "configure_summarization",
                    "configure_compacting"} :
          ConfigureStep(agent_ids, [type |-> type, enable |-> enable,
                                    turns |-> 2, keep |-> 1])
    \/ \E a \in PairIds :
          \/ \E batch \in {<<"user">>, <<"user", "assistant">>, <<"tool">>} :
                /\ nextId + Len(batch) <= MaxId - 1
                /\ AddStep(a, batch) \/ SummAddStep(a, batch)
          \/ PopStep(a)
          \/ ClearStep(a)
    \/ \E i \in 1..MaxId, outcome \in LLMSummarizerAnswers : SummFinishAt(i, outcome)

SpecPair == StartPair /\ [][NextPair]_vars

\* A Summarizing session whose host may start add_items calls while earlier
\* ones are suspended (the session lock is free during the await); the
\* summarizer answers them in any order.
NextSummConcurrent ==
    \/ \E a \in AgentIds, batch \in Batches :
          SummAdd(a, batch) \/ (~Idle /\ SummAddStep(a, batch))
    \/ \E i \in 1..MaxId, outcome \in Outcomes : SummFinishAt(i, outcome)

SpecSummConcurrent == InitSumm /\ [][NextSummConcurrent]_vars

\* A Summarizing session whose add_items calls may be cancelled while they
\* await the summarizer.
NextSummCancel ==
    \/ NextSumm
    \/ \E i \in 1..MaxId : SummCancel(i)

SpecSummCancel == InitSumm /\ [][NextSummCancel]_vars

\* A Summarizing session whose host may call clear_session while an add_items
\* call awaits the summarizer.
NextSummClear ==
    \/ NextSumm
    \/ \E a \in AgentIds :
          ~Idle /\ SESSIONS[a].kind = "summarizing" /\ ClearStep(a)

SpecSummClear == InitSumm /\ [][NextSummClear]_vars

\* ------------------------------------------------------ vocabulary of claims
Ids(items) == {items[i].id : i \in DOMAIN items}

\* The suffix of items that begins at the k-th most recent user item
\* (items holds at least k >= 1 user items).
LastTurns(items, k) ==
    LET p == CHOOSE q \in DOMAIN items :
                 IsUserMsg(items[q]) /\ CountUserTurns(DropFirst(items, q - 1)) = k
    IN  DropFirst(items, p - 1)

\* A step that is an add_items call running to its end on a session of `kind`.
AddedTo(a, kind) ==
    /\ last'.op = "add_items"
    /\ last'.agent = a
    /\ SESSIONS[a].kind = kind
    /\ SESSIONS'[a].kind = kind

\* ------------------------------------------------------------------- C1
\* C1: after every add_items call on a Trimming session the number of
\* user-role items stored is at most max_turns.
C1_BoundAfterAdd ==
    \A a \in AgentIds :
        (last.op = "add_items" /\ last.agent = a /\ SESSIONS[a].kind = "trimming")
        => /\ 1 <= SESSIONS[a].keep_last_n_turns
           /\ SESSIONS[a].keep_last_n_turns <= SESSIONS[a].max_turns
           /\ CountUserTurns(SESSIONS[a].items) <= SESSIONS[a].max_turns

\* An add_items call just trimmed a session with keep < max, after a pop and
\* a reconfiguration were possible, and the bound is not vacuous.
C1_Witness ==
    \E a \in AgentIds :
        /\ last.op = "add_items" /\ SESSIONS[a].kind = "trimming"
        /\ SESSIONS[a].did_trim
        /\ SESSIONS[a].max_turns = 3
        /\ CountUserTurns(SESSIONS[a].items) = 2

\* ------------------------------------------------------------------- C2
\* C2: whenever add_items on a Trimming session removes an item, what is
\* stored afterwards is the suffix of (stored items followed by the new items)
\* that begins at the K-th most recent user item: it starts with a user item
\* and holds exactly K = keep_last_n_turns user items.
C2_TrimIsLastKTurns ==
    [][\A a \in AgentIds :
          LET pending == SESSIONS[a].items \o last'.new
              stored == SESSIONS'[a].items
              K == SESSIONS[a].keep_last_n_turns
          IN  (AddedTo(a, "trimming") /\ Len(stored) < Len(pending))
              => /\ CountUserTurns(pending) >= K
                 /\ stored = LastTurns(pending, K)
                 /\ IsUserMsg(stored[1])
                 /\ CountUserTurns(stored) = K]_vars

\* max_turns = 3, keep = 2: the add_items call that brought the third user
\* turn left exactly the last two turns.
C2_Witness ==
    \E a \in AgentIds :
        /\ last.op = "add_items" /\ SESSIONS[a].kind = "trimming"
        /\ SESSIONS[a].did_trim
        /\ SESSIONS[a].max_turns = 3 /\ SESSIONS[a].keep_last_n_turns = 2
        /\ CountUserTurns(SESSIONS[a].items) = 2
        /\ Len(SESSIONS[a].items) >= 3

\* ------------------------------------------------------------------- C3
\* C3 (hysteresis): add_items on a Trimming session removes no item when the
\* user items of (stored items plus new items) number fewer than max_turns,
\* after any sequence of add_items, pop_item and clear_session.
C3_NoTrimBelowMax ==
    [][\A a \in AgentIds :
          LET pending == SESSIONS[a].items \o last'.new
          IN  (AddedTo(a, "trimming")
               /\ CountUserTurns(pending) < SESSIONS[a].max_turns)
              => SESSIONS'[a].items = pending]_vars

\* ------------------------------------------------------------------- C4
\* The step in which a Summarizing add_items call returns from the summarizer.
Summarized(a) ==
    /\ calls # <<>>
    /\ Head(calls).agent = a
    /\ AddedTo(a, "summarizing")

\* C4: after add_items on a Summarizing session has replaced a non-empty
\* prefix with a summary, get_items() holds no item of the prefix, starts
\* with the one or two synthetic items (optional user shadow line, then the
\* assistant summary) and continues with exactly the suffix, for every
\* keep >= 1 and every contextLimit >= keep.
C4_ViewIsSummaryThenSuffix ==
    [][\A a \in AgentIds :
          LET call == Head(calls).call
              view == GetItems(SESSIONS'[a])
              summary == SESSIONS'[a].last_summary
              n == IF summary.shadow_line # "" THEN 2 ELSE 1
          IN  (/\ Summarized(a)
               /\ summary.present
               /\ SESSIONS[a].keep_last_n_turns >= 1
               /\ SESSIONS[a].max_turns >= SESSIONS[a].keep_last_n_turns)
              => /\ Ids(view) \cap Ids(call.prefix) = {}
                 /\ Len(view) >= n
                 /\ view[n].role = "assistant"
                 /\ view[n].content = summary.summary_text
                 /\ n = 2 => (view[1].role = "user"
                              /\ view[1].content = summary.shadow_line)
                 /\ DropFirst(view, n) = call.suffix]_vars

\* ------------------------------------------------------------------- C5
\* C5: when the summarizer raises on a non-empty prefix, add_items on a
\* Summarizing session still completes and replaces the prefix: what is
\* stored is the fallback user shadow line, the fallback assistant summary,
\* then the suffix, and no item of the prefix.
C5_FallbackReplacesPrefix ==
    [][\A a \in AgentIds :
          LET call == Head(calls).call
              pending == SESSIONS[a].items \o last'.new
              stored == SESSIONS'[a].items
          IN  (Summarized(a) /\ last'.outcome.raised)
              => /\ call.prefix # <<>>
                 /\ Len(stored) >= 2
                 /\ stored[1].role = "user" /\ stored[1].content = SHADOW_LINE
                 /\ stored[2].role = "assistant"
                 /\ stored[2].content = FALLBACK_SUMMARY
                 /\ pending = call.prefix \o DropFirst(stored, 2)
                 /\ Ids(stored) \cap Ids(call.prefix) = {}
                 /\ calls' = Tail(calls)]_vars

\* An add_items call has returned after the summarizer raised, and the
\* fallback summary is followed by a suffix of two turns.
C5_Witness ==
    \E a \in AgentIds :
        /\ last.op = "add_items" /\ last.outcome.raised
        /\ SESSIONS[a].kind = "summarizing"
        /\ Len(SESSIONS[a].items) = 4
        /\ SESSIONS[a].items[2].content = FALLBACK_SUMMARY
        /\ CountUserTurns(DropFirst(SESSIONS[a].items, 2)) = 2

\* ------------------------------------------------------------------- C6
\* Every add_items call since construction brought one user message.
SingleUserTurns ==
    /\ log.pure
    /\ \A i \in DOMAIN log.adds :
          Len(log.adds[i]) = 1 /\ IsUserMsg(log.adds[i][1])

\* C6: on a Summarizing session with keep = K >= 1 and contextLimit = L > K
\* that receives single-message user turns one at a time from empty, the
\* summarizer is not called in the first L-1 add_items calls and is called
\* exactly once in the L-th, after which get_last_summary() is a record with
\* non-empty summary text (the summarizer returning text, or raising).
C6_SummarizerCalledOnLthTurn ==
    \A a \in AgentIds :
        LET s == SESSIONS[a]
            L == s.max_turns
            n == Len(log.adds)
        IN  (/\ s.kind = "summarizing"
             /\ SingleUserTurns
             /\ s.keep_last_n_turns >= 1
             /\ L > s.keep_last_n_turns)
            => /\ n < L => (summarizerCalls = 0 /\ Idle)
               /\ n = L => /\ summarizerCalls = 1
                           /\ (/\ Idle
                               /\ last.op = "add_items" /\ last.new # <<>>
                               /\ last.outcome.raised \/ last.outcome.summary_text # "")
                              => /\ GetLastSummary(s).present
                                 /\ GetLastSummary(s).summary_text # ""

\* keep = 2, contextLimit = 3: the third single user turn has been added,
\* the summarizer was called once and a summary is recorded.
C6_Witness ==
    \E a \in AgentIds :
        /\ SESSIONS[a].kind = "summarizing"
        /\ SingleUserTurns
        /\ SESSIONS[a].keep_last_n_turns = 2 /\ SESSIONS[a].max_turns = 3
        /\ Len(log.adds) = 3
        /\ Idle /\ last.op = "add_items"
        /\ summarizerCalls = 1
        /\ GetLastSummary(SESSIONS[a]).present

\* ------------------------------------------------------------------- C7
\* C7: add_items([]) on a Default, Trimming, Summarizing or tracking
\* Compacting session changes nothing: stored items, turn counter and pending
\* usage delta are as before the call, and the summarizer is not called.
C7_EmptyAddChangesNothing ==
    [][\A a \in AgentIds :
          (/\ Idle
           /\ last'.op \in {"add_items", "summarize"}
           /\ last'.agent = a
           /\ last'.new = <<>>)
          => /\ SESSIONS'[a].items = SESSIONS[a].items
             /\ SESSIONS'[a].counter = SESSIONS[a].counter
             /\ SESSIONS'[a].delta = SESSIONS[a].delta
             /\ SESSIONS'[a].pending_tools_delta = SESSIONS[a].pending_tools_delta
             /\ summarizerCalls' = summarizerCalls
             /\ calls' = calls]_vars

\* add_items([]) has returned on a Summarizing session whose turn counter
\* has reached the limit and whose stored items have a prefix to summarize.
C7_Witness ==
    \E a \in AgentIds :
        /\ last.op = "add_items" /\ last.new = <<>> /\ Idle
        /\ SESSIONS[a].kind = "summarizing"
        /\ SESSIONS[a].counter >= SESSIONS[a].max_turns
        /\ CountUserTurns(SESSIONS[a].items) > SESSIONS[a].keep_last_n_turns
        /\ SESSIONS[a].keep_last_n_turns >= 1

\* ------------------------------------------------------------------- C8
\* C8 (order preservation): after any add_items call on a Trimming or
\* Summarizing session the stored items that are not synthetic form a
\* contiguous suffix of (stored items followed by the new items), in the
\* same order, none duplicated.
C8_SurvivorsAreSuffix ==
    [][\A a \in AgentIds : \A kind \in {"trimming", "summarizing"} :
          LET pending == SESSIONS[a].items \o last'.new
              stored == SESSIONS'[a].items
              survivors == SelectSeq(stored, LAMBDA it : it.id \in Ids(pending))
              built == SelectSeq(stored, LAMBDA it : it.id \notin Ids(pending))
          IN  AddedTo(a, kind)
              => /\ IsSuffixOf(survivors, pending)
                 /\ \A i \in DOMAIN built : built[i].id < 0
                 /\ stored = built \o survivors]_vars

\* A summarization has left two synthetic items followed by survivors, after
\* an earlier part of the conversation was removed.
C8_Witness ==
    \E a \in AgentIds :
        /\ last.op = "add_items" /\ last.new # <<>>
        /\ SESSIONS[a].kind = "summarizing"
        /\ SESSIONS[a].last_summary.present
        /\ Len(SESSIONS[a].items) >= 4
        /\ SESSIONS[a].items[1].id < 0
        /\ SESSIONS[a].items[Len(SESSIONS[a].items)].id > 0

\* ------------------------------------------------------------------- C9
\* C9: when keepLastNTurns of an existing Trimming session storing more than
\* n user turns is lowered to n >= 1, by set_keep_last_n_turns(n) or by the
\* registry reconfiguring the session on the next run, the next get_items()
\* returns only the last n turns.
C9_LoweredKeepTrimsNextRead ==
    [][\A a \in AgentIds :
          LET before == SESSIONS[a]
              after == SESSIONS'[a]
              n == after.keep_last_n_turns
          IN  (/\ last'.op \in {"set_keep_last_n_turns", "run_agent"}
               /\ last'.agent = a
               /\ before.kind = "trimming" /\ after.kind = "trimming"
               /\ n >= 1
               /\ n < before.keep_last_n_turns
               /\ CountUserTurns(before.items) > n)
              => GetItems(after) = LastTurns(before.items, n)]_vars

\* ------------------------------------------------------------------- C10
\* The session that receives the add_items calls `adds` in order.
RECURSIVE Replay(_, _)
Replay(s, adds) ==
    IF adds = <<>> THEN s
    ELSE Replay(TrimmingAddItems(s, Head(adds)), Tail(adds))

\* A step that is a set_max_turns or set_keep_last_n_turns call on a
\* Trimming session.
Reconfigured(a) ==
    /\ last'.op \in {"set_max_turns", "set_keep_last_n_turns"}
    /\ last'.agent = a
    /\ SESSIONS[a].kind = "trimming"

\* C10 (reconfiguration equivalence): after add_items calls under (M, K)
\* followed by set_max_turns or set_keep_last_n_turns to (M', K'), the stored
\* items and the turn counter equal those of a session that received the
\* same add_items calls with (M', K') from the start.
C10_ReconfiguredEqualsReplayed ==
    [][\A a \in AgentIds :
          LET after == SESSIONS'[a]
              replayed == Replay(TrimmingSession(after.max_turns,
                                                 after.keep_last_n_turns), log.adds)
          IN  (Reconfigured(a) /\ log.pure)
              => /\ after.items = replayed.items
                 /\ after.counter = replayed.counter]_vars

\* C10 as amended: set_max_turns and set_keep_last_n_turns window the items
\* stored at the time of the call, and nothing else.  With M', K' the
\* parameters after the call and u the user items stored before it, items are
\* removed only when set_max_turns changed maxTurns and u >= M', or
\* set_keep_last_n_turns changed keep and u > K' or u >= M'; what is stored is then the
\* last K' turns of the stored items and the counter min(K', turns kept);
\* otherwise the items stay and the counter is min(counter, M').
C10_ReconfigurationRewindowsStored ==
    [][\A a \in AgentIds :
          LET before == SESSIONS[a]
              after == SESSIONS'[a]
              u == CountUserTurns(before.items)
              due == \/ /\ last'.op = "set_max_turns"
                        /\ after.max_turns # before.max_turns
                        /\ u >= after.max_turns
                     \/ /\ last'.op = "set_keep_last_n_turns"
                        /\ after.keep_last_n_turns # before.keep_last_n_turns
                        /\ (u > after.keep_last_n_turns \/ u >= after.max_turns)
              window == IF due THEN LastTurns(before.items, after.keep_last_n_turns)
                        ELSE before.items
          IN  Reconfigured(a)
              => /\ after.items = window
                 /\ after.counter =
                       IF Len(window) < Len(before.items)
                       THEN Min(after.keep_last_n_turns, CountUserTurns(window))
                       ELSE Min(before.counter, after.max_turns)]_vars

\* maxTurns = 3 and two user turns ever added: set_keep_last_n_turns(1) has
\* removed the first turn and left the second.
C10_Witness ==
    \E a \in AgentIds :
        /\ last.op = "set_keep_last_n_turns"
        /\ SESSIONS[a].kind = "trimming"
        /\ SESSIONS[a].did_trim
        /\ SESSIONS[a].max_turns = 3 /\ SESSIONS[a].keep_last_n_turns = 1
        /\ nextId = 2
        /\ Len(SESSIONS[a].items) = 1 /\ SESSIONS[a].items[1].id = 2
        /\ SESSIONS[a].counter = 1

\* ------------------------------------------------------------------- C11
\* Items without the object identity of the synthetic ones.
Plain(items) ==
    [i \in DOMAIN items |-> IF items[i].id < 0 THEN [items[i] EXCEPT !.id = 0]
                            ELSE items[i]]

\* The Summarizing session that receives the add_items calls `adds` one
\* after the other, the summarizer answering the i-th with outs[i].
RECURSIVE SummReplay(_, _, _)
SummReplay(s, adds, outs) ==
    IF adds = <<>> THEN s
    ELSE LET r == SummarizingBegin(s, Head(adds), 1)
             done == IF r.suspended
                     THEN SummarizingFinish(r.session, r.call, Head(outs))
                     ELSE r.session
         IN  SummReplay(done, Tail(adds), Tail(outs))

\* C11: add_items calls on one Summarizing session are serialized in arrival
\* order, also when one starts while another is suspended in the summarizer:
\* once all have returned, stored items, turn counter and pending delta are
\* those of running the calls one after the other in arrival order.
C11_ConcurrentAddsSerialized ==
    \A a \in AgentIds :
        LET s == SESSIONS[a]
            n == Len(log.adds)
        IN  (s.kind = "summarizing" /\ Idle /\ log.pure)
            => \E outs \in [1..n -> Outcomes] :
                  LET r == SummReplay(SummarizingSession(s.keep_last_n_turns, s.max_turns),
                                      log.adds, outs)
                  IN  /\ Plain(r.items) = Plain(s.items)
                      /\ r.counter = s.counter
                      /\ r.delta = s.delta

\* ------------------------------------------------------------------- C12
\* C12: when an add_items call on a Summarizing session is cancelled while
\* it awaits the summarizer, stored items, turn counter and pending delta are
\* together those of before the call or those of a completed call.
C12_CancelledAddIsAllOrNothing ==
    [][\A i \in DOMAIN calls :
          LET c == calls[i]
              s == SESSIONS[c.agent]
              after == SESSIONS'[c.agent]
              same(x, y) == /\ x.items = y.items
                            /\ x.counter = y.counter
                            /\ x.delta = y.delta
              pre == [s EXCEPT !.counter = @ - CountUserTurns(c.new)]
          IN  (last'.op = "cancelled" /\ calls' = Without(calls, i))
              => \/ same(after, pre)
                 \/ \E o \in Outcomes :
                       same(after, SummarizingFinish(s, c.call, o))]_vars

\* ------------------------------------------------------------------- C13
\* C13: after _ensure_session(id, config), whatever configs came before, the
\* session registered for id is of the variant the config selects
\* (Summarizing if memorySummarization, else Compacting if memoryCompacting,
\* else Trimming if memoryTrimming, else Default), and a session of another
\* variant has been replaced by a fresh one.
C13_EnsureSelectsVariant ==
    [][\A a \in AgentIds : \A config \in RegistryConfigs :
          Ensure(a, config)
          => /\ SESSIONS'[a].kind = Selected(config)
             /\ SESSIONS[a].kind # Selected(config)
                => /\ SESSIONS'[a].items = <<>>
                   /\ SESSIONS'[a].counter = 0]_vars

\* ------------------------------------------------------------------- C14
\* A step that reconfigures the session of `a` and keeps its policy kind:
\* _ensure_session with a config selecting the kind it has, or a configure
\* command with enable = true for the kind it has.
SameKindReconfigured(a) ==
    \/ \E config \in RegistryConfigs :
          Ensure(a, config) /\ Selected(config) = SESSIONS[a].kind
    \/ \E m \in CommandInputs, k \in CommandInputs :
          \/ ConfigureTrimming(a, TRUE, m, k) /\ SESSIONS[a].kind = "trimming"
          \/ ConfigureSummarization(a, TRUE, m, k) /\ SESSIONS[a].kind = "summarizing"
          \/ ConfigureCompacting(a, TRUE, m, k) /\ SESSIONS[a].kind = "compacting"

\* C14: a configuration request that keeps the policy kind of an existing
\* session and only changes its parameters preserves the session's stored
\* items and turn counter.
C14_SameKindKeepsHistory ==
    [][\A a \in AgentIds :
          SameKindReconfigured(a)
          => /\ SESSIONS'[a].items = SESSIONS[a].items
             /\ SESSIONS'[a].counter = SESSIONS[a].counter]_vars

\* ------------------------------------------------------------------- C15
\* C15: the pending usage delta is consumed exactly once: when a run_agent
\* call finishes, the session's pending delta is all-zero and every delta a
\* policy action recorded has been added to the token usage of exactly one
\* run, so what the runs reported so far is what the sessions recorded.
C15_DeltaReportedExactlyOnce ==
    \A a \in AgentIds :
        last.op = "run_agent_finished" /\ last.agent = a =>
            /\ SESSIONS[a].delta = ZeroUsage
            /\ ledger.reported = ledger.recorded

\* ------------------------------------------------------------------- C16
\* C16: reconfiguration of a Trimming session is clamped, never rejected:
\* after the constructor and after any sequence of set_max_turns(n),
\* set_keep_last_n_turns(n) and registry reconfigurations, with n <= 0 and
\* keep > max among the inputs, 1 <= keep_last_n_turns <= max_turns.
C16_TrimmingParamsClamped ==
    \A a \in AgentIds :
        SESSIONS[a].kind = "trimming" =>
            /\ 1 <= SESSIONS[a].keep_last_n_turns
            /\ SESSIONS[a].keep_last_n_turns <= SESSIONS[a].max_turns

\* set_max_turns has lowered max_turns to 1 on a session holding two user
\* turns, and keep_last_n_turns has followed it down.
C16_Witness ==
    \E a \in AgentIds :
        /\ last.op = "set_max_turns"
        /\ SESSIONS[a].kind = "trimming"
        /\ SESSIONS[a].max_turns = 1
        /\ SESSIONS[a].keep_last_n_turns = 1
        /\ nextId >= 2
        /\ SESSIONS[a].counter = 1
        /\ Len(SESSIONS[a].items) = 1

\* ------------------------------------------------------------------- C17
\* C17: for a Summarizing session, after every configuration step (the
\* constructor, configure_limits, _ensure_session and
\* configure_summarizing_sessions), contextLimitTurns (max_turns) is at least
\* keepLastNTurns.
C17_LimitAtLeastKeep ==
    \A a \in AgentIds :
        SESSIONS[a].kind = "summarizing" =>
            SESSIONS[a].max_turns >= SESSIONS[a].keep_last_n_turns

\* ------------------------------------------------------------------- C18
\* A session in the state clear_session leaves behind.
IsEmptySession(s) ==
    /\ s.items = <<>>
    /\ s.counter = 0
    /\ s.delta = ZeroUsage
    /\ s.kind = "summarizing" => GetLastSummary(s) = NoSummary

\* C18: clear_session on any session variant, from any reachable state,
\* leaves the stored items empty, the turn counter 0, every pending-delta
\* component 0 and, for a Summarizing session, no last summary; a reset
\* command forgets every session, and the next reference to an identifier
\* yields a session in that empty state.
C18_ClearAndResetEmpty ==
    [][\A a \in AgentIds :
          /\ last'.op = "clear_session" /\ last'.agent = a
                => IsEmptySession(SESSIONS'[a])
          /\ last'.op = "reset" => SESSIONS'[a] = NoSession
          /\ SESSIONS[a] = NoSession /\ SESSIONS'[a] # NoSession
                => IsEmptySession(SESSIONS'[a])]_vars

\* clear_session has just returned on a Summarizing session that had been
\* given items and had summarized.
C18_Witness ==
    \E a \in AgentIds :
        /\ last.op = "clear_session" /\ last.agent = a
        /\ SESSIONS[a].kind = "summarizing"
        /\ SESSIONS[a].did_summarize
        /\ nextId >= 2

\* ------------------------------------------------------------------- C19
\* The limits a reader may pass to get_items.
Limits == 0..(MaxBatch + 1)

\* The last n items of a sequence, none for n = 0.
TakeLast(items, n) == SubSeq(items, Len(items) - n + 1, Len(items))

\* get_items(limit) as the session of that kind answers it.
GetItemsLimit(s, limit) ==
    IF s.kind = "default" THEN DefaultGetItems(s, limit) ELSE TrimmingGetItems(s, limit)

\* C19: on a Default or Trimming session, get_items(limit) with limit >= 0
\* returns the last min(limit, n) items, in order, of the n items that
\* get_items() returns; get_items(0) returns the empty sequence.
C19_LimitTakesLastItems ==
    \A a \in AgentIds :
        SESSIONS[a].kind \in {"default", "trimming"} =>
            \A limit \in Limits :
                LET all == GetItemsLimit(SESSIONS[a], -1)
                IN  GetItemsLimit(SESSIONS[a], limit) = TakeLast(all, Min(limit, Len(all)))

\* ------------------------------------------------------------------- C20
\* C20: a Default session applies no overflow policy: add_items appends the
\* new items to the stored sequence, pop_item removes the last stored item
\* and nothing else, so that the stored sequence is the added items in
\* insertion order minus the items popped from the end, and
\* set_max_turns(n) changes neither items, turn counter nor pending delta.
C20_DefaultKeepsEverything ==
    [][\A a \in AgentIds :
          LET s == SESSIONS[a]
              t == SESSIONS'[a]
          IN  s.kind = "default" /\ t.kind = "default" /\ last'.agent = a =>
                /\ last'.op = "add_items" => t.items = s.items \o last'.new
                /\ last'.op = "pop_item" =>
                      t.items = SubSeq(s.items, 1, Len(s.items) - 1)
                /\ last'.op = "set_max_turns" =>
                      /\ t.items = s.items
                      /\ t.counter = s.counter
                      /\ t.delta = s.delta]_vars

\* set_max_turns has returned on a Default session that holds more user
\* turns than any limit passed to it, after an item was popped.
C20_Witness ==
    \E a \in AgentIds :
        /\ last.op = "set_max_turns" /\ last.agent = a
        /\ SESSIONS[a].kind = "default"
        /\ Len(SESSIONS[a].items) = MaxId - 1
        /\ nextId = MaxId
        /\ SESSIONS[a].counter = MaxId
        /\ log.pure = FALSE

\* ------------------------------------------------------------------- C21
\* What C21 observes of a session.
Observed(s) ==
    IF s.kind = "none" THEN <<>>
    ELSE <<s.items, s.counter, s.delta, s.last_summary>>

\* C21: sessions of different identifiers share no mutable session state:
\* the registry never maps two identifiers to the same session instance, and
\* an operation (add_items, pop_item, clear_session, reconfiguration) on the
\* session of one identifier, interleaved in any way with operations on
\* another, leaves the other's stored items, turn counter, pending delta and
\* last summary unchanged.
C21_NoSharedSession ==
    [][\A a \in PairIds, b \in PairIds :
          a # b =>
            /\ instances'[a] # NoInstance => instances'[a] # instances'[b]
            /\ last'.agent = a => Observed(SESSIONS'[b]) = Observed(SESSIONS[b])]_vars

\* Both identifiers were given Trimming sessions of the same limits, as one
\* configure_trimming command naming both gives them, and hold different
\* objects; an add_items call on a1 has stored its item and a2 holds none.
C21_Witness ==
    /\ last.op = "add_items" /\ last.agent = "a1" /\ last.new # <<>>
    /\ SESSIONS["a1"].kind = "trimming" /\ SESSIONS["a2"].kind = "trimming"
    /\ SESSIONS["a1"].max_turns = SESSIONS["a2"].max_turns
    /\ SESSIONS["a1"].items # <<>> /\ SESSIONS["a2"].items = <<>>
    /\ instances["a1"] # NoInstance /\ instances["a2"] # NoInstance
    /\ instances["a1"] # instances["a2"]

\* ------------------------------------------------------------------- C22
\* The tokens of the items of `before` that are compacted in `after`.
RECURSIVE CompactedTokens(_, _)
CompactedTokens(before, after) ==
    IF before = <<>> THEN 0
    ELSE (IF ~Head(before).compacted /\ Head(after).compacted
          THEN TokenCount(Head(before)) ELSE 0)
         + CompactedTokens(Tail(before), Tail(after))

\* C22: on a tracking Compacting session the token difference of every
\* compaction is <= 0 and reaches the 'tools' component of the usage delta
\* exactly once: when an add_items call completes, the pending tools delta
\* is 0 and the 'tools' delta has decreased by the tokens of exactly the
\* items the call compacted, the other components staying as they were.
C22_CompactionDeltaAppliedOnce ==
    [][\A a \in AgentIds :
          LET s == SESSIONS[a]
              t == SESSIONS'[a]
          IN  s.kind = "compacting" /\ last'.op = "add_items" /\ last'.agent = a
              /\ last'.new # <<>> =>
                /\ t.pending_tools_delta = 0
                /\ Len(t.items) = Len(s.items) + Len(last'.new)
                /\ t.delta = [s.delta EXCEPT !.tools =
                                 @ + s.pending_tools_delta
                                   - CompactedTokens(s.items \o last'.new, t.items)]
                /\ t.delta.tools <= s.delta.tools]_vars

\* add_items has compacted a tool item for the second time in the life of
\* the session: both compactions are in the 'tools' delta.
C22_Witness ==
    \E a \in AgentIds :
        /\ SESSIONS[a].kind = "compacting"
        /\ last.op = "add_items" /\ last.agent = a
        /\ SESSIONS[a].did_compact
        /\ \E i, j \in DOMAIN SESSIONS[a].items :
              i < j /\ SESSIONS[a].items[i].compacted /\ SESSIONS[a].items[j].compacted
        /\ SESSIONS[a].delta.tools < 0

\* ------------------------------------------------------------------- C23
\* C23: compaction is idempotent: a stored item marked as compacted counts
\* as zero tokens, and compacting it again leaves the item as it is and
\* adds exactly 0 to the pending tools delta.
C23_CompactionIdempotent ==
    \A a \in AgentIds :
        SESSIONS[a].kind = "compacting" =>
            \A idx \in DOMAIN SESSIONS[a].items :
                SESSIONS[a].items[idx].compacted =>
                    /\ TokenCount(SESSIONS[a].items[idx]) = 0
                    /\ CompactToolItem(SESSIONS[a], idx).items = SESSIONS[a].items
                    /\ CompactToolItem(SESSIONS[a], idx).pending_tools_delta
                         = SESSIONS[a].pending_tools_delta

\* A compacted tool result is stored behind the turns that were kept, and
\* its tokens have left the 'tools' component.
C23_Witness ==
    \E a \in AgentIds :
        /\ SESSIONS[a].kind = "compacting"
        /\ Len(SESSIONS[a].items) >= 3
        /\ SESSIONS[a].items[1].role = "tool" /\ SESSIONS[a].items[1].compacted
        /\ SESSIONS[a].items[1].content = COMPACTED_PLACEHOLDER
        /\ ~SESSIONS[a].items[Len(SESSIONS[a].items)].compacted
        /\ SESSIONS[a].delta.tools + SESSIONS[a].delta.rag < 0

\* ------------------------------------------------------------------- C24
\* What run_agent reports as contextTrimmed when it reads a Trimming session
\* under an active trimming policy.
ContextTrimmed(s) == s.kind = "trimming" /\ s.did_trim

\* add_items call that takes the stored items from `before` to `after`
\* removed stored items: fewer items are stored than were stored and added.
RemovedItems(before, new, after) == Len(after) < Len(before) + Len(new)

\* C24: contextTrimmed of a Trimming session is true if and only if
\* trimming fired during the turn, however many add_items calls the turn
\* makes afterwards: of two successive add_items calls of a turn, the flag
\* read after the second is true exactly when one of the two removed items.
C24_TrimmedFlagCoversTurn ==
    [][\A a \in AgentIds :
          SESSIONS[a].kind = "trimming"
          /\ last.op = "add_items" /\ last.agent = a /\ last.new # <<>>
          /\ last'.op = "add_items" /\ last'.agent = a /\ last'.new # <<>> =>
             (ContextTrimmed(SESSIONS'[a])
                <=> \/ ContextTrimmed(SESSIONS[a])
                    \/ RemovedItems(SESSIONS[a].items, last'.new, SESSIONS'[a].items))]_vars

\* ------------------------------------------------------------------- C25
\* The items an add_items call removed from the front of the merged sequence.
RemovedPrefix(before, new, after) ==
    SubSeq(before \o new, 1, Len(before) + Len(new) - Len(after))

\* C25: an add_items call on a Trimming session that removes items subtracts
\* the estimated usage of exactly the removed items from the userInput,
\* agentOutput, tools and rag components of the pending delta, on top of
\* what earlier calls left there, and leaves memory and basePrompt as they
\* were; a call that removes nothing leaves the pending delta unchanged.
C25_TrimmingDeltaAccumulates ==
    [][\A a \in AgentIds :
          SESSIONS[a].kind = "trimming" /\ last'.op = "add_items" /\ last'.agent = a =>
             LET s == SESSIONS[a]
                 t == SESSIONS'[a]
                 removed == RemovedPrefix(s.items, last'.new, t.items)
                 usage == EstimateUsageForItems(removed)
             IN  /\ t.items = SubSeq(s.items \o last'.new, Len(removed) + 1,
                                     Len(s.items) + Len(last'.new))
                 /\ t.delta.userInput = s.delta.userInput - usage.userInput
                 /\ t.delta.agentOutput = s.delta.agentOutput - usage.agentOutput
                 /\ t.delta.tools = s.delta.tools - usage.tools
                 /\ t.delta.rag = s.delta.rag - usage.rag
                 /\ t.delta.memory = s.delta.memory
                 /\ t.delta.basePrompt = s.delta.basePrompt
                 /\ (removed = <<>> => t.delta = s.delta)]_vars

\* An add_items call has just removed items from a Trimming session; the
\* pending delta holds the usage of removed items of two kinds.
C25_Witness ==
    \E a \in AgentIds :
        /\ SESSIONS[a].kind = "trimming"
        /\ last.op = "add_items" /\ last.agent = a
        /\ SESSIONS[a].did_trim
        /\ SESSIONS[a].delta.userInput < 0
        /\ SESSIONS[a].delta.agentOutput + SESSIONS[a].delta.rag < 0
        /\ SESSIONS[a].items # <<>>
        /\ SESSIONS[a].items[1].id >= 3

\* ------------------------------------------------------------------- C26
\* The items of the merged sequence that are no longer stored after the call.
RemovedFromStored(before, new, after) ==
    SelectSeq(before \o new,
              LAMBDA item : \A i \in DOMAIN after : after[i].id # item.id)

\* C26: the pending delta of a Summarizing session holds minus the usage of
\* all the items that add_items calls removed from the stored sequence since
\* it was last read: every completed add_items call lowers the userInput,
\* agentOutput, tools and rag components by the estimated usage of the items
\* it removed, and never discards what an earlier call recorded.
C26_SummarizingDeltaAccumulates ==
    [][\A a \in AgentIds :
          SESSIONS[a].kind = "summarizing" /\ last'.op = "add_items" /\ last'.agent = a =>
             LET s == SESSIONS[a]
                 t == SESSIONS'[a]
                 usage == EstimateUsageForItems(
                              RemovedFromStored(s.items, last'.new, t.items))
             IN  /\ t.delta.userInput = s.delta.userInput - usage.userInput
                 /\ t.delta.agentOutput = s.delta.agentOutput - usage.agentOutput
                 /\ t.delta.tools = s.delta.tools - usage.tools
                 /\ t.delta.rag = s.delta.rag - usage.rag]_vars

\* ------------------------------------------------------------------- C27
\* The items a setter removed from the front of the stored sequence.
RemovedBySetter(before, after) == SubSeq(before, 1, Len(before) - Len(after))

\* C27: when set_max_turns or set_keep_last_n_turns on a Trimming session
\* removes stored items, the userInput, agentOutput, tools and rag
\* components of the pending delta decrease by the estimated usage of the
\* removed items, as they do when add_items removes them.
C27_SettersRecordDelta ==
    [][\A a \in AgentIds :
          SESSIONS[a].kind = "trimming" /\ last'.agent = a
          /\ last'.op \in {"set_max_turns", "set_keep_last_n_turns"}
          /\ Len(SESSIONS'[a].items) < Len(SESSIONS[a].items) =>
             LET s == SESSIONS[a]
                 t == SESSIONS'[a]
                 usage == EstimateUsageForItems(RemovedBySetter(s.items, t.items))
             IN  /\ t.delta.userInput = s.delta.userInput - usage.userInput
                 /\ t.delta.agentOutput = s.delta.agentOutput - usage.agentOutput
                 /\ t.delta.tools = s.delta.tools - usage.tools
                 /\ t.delta.rag = s.delta.rag - usage.rag]_vars

\* ------------------------------------------------------------------- C28
\* C28: an add_items call on a Summarizing session whose turn counter, after
\* the user items of the batch are counted, is below contextLimitTurns never
\* calls the summarizer and inserts no synthetic item: it completes at once
\* and stores the merged sequence windowed by the non-forced trimming rule.
C28_BelowLimitNoSummary ==
    [][\A a \in AgentIds, batch \in Batches :
          LET s == SESSIONS[a]
              new == MkBatch(batch, nextId)
          IN  s.kind = "summarizing" /\ SummAdd(a, batch)
              /\ s.counter + CountUserTurns(new) < s.max_turns =>
                 /\ last'.op = "add_items"
                 /\ calls' = calls
                 /\ summarizerCalls' = summarizerCalls
                 /\ SESSIONS'[a].items =
                       TrimToLastTurns(s.items \o new, s.max_turns,
                                       s.keep_last_n_turns, FALSE).trimmed
                 /\ IsSuffixOf(SESSIONS'[a].items, s.items \o new)
                 /\ SESSIONS'[a].last_summary = s.last_summary]_vars

\* An add_items call below the limit has completed on a session that holds
\* a summary from an earlier call.
C28_Witness ==
    \E a \in AgentIds :
        /\ SESSIONS[a].kind = "summarizing"
        /\ last.op = "add_items" /\ last.agent = a /\ last.new # <<>>
        /\ last.outcome = NoOutcome
        /\ summarizerCalls > 0
        /\ SESSIONS[a].counter < SESSIONS[a].max_turns
        /\ SESSIONS[a].last_summary # NoSummary
        /\ Len(SESSIONS[a].items) >= 2

\* ------------------------------------------------------------------- C29
\* items cut to its last `keep` turns (all of it when it holds fewer).
CutToLastTurns(items, keep) ==
    IF keep >= 1 /\ CountUserTurns(items) >= keep THEN LastTurns(items, keep) ELSE items

\* What the fallback of add_items must leave, given the merged sequence: no
\* synthetic item, the last keepLastNTurns turns, and a delta and a counter
\* that describe the items that were removed.
PlainlyTrimmed(s, merged, t) ==
    LET removed == SubSeq(merged, 1, Len(merged) - Len(t.items))
    IN  /\ IsSuffixOf(t.items, merged)
        /\ t.items = CutToLastTurns(merged, s.keep_last_n_turns)
        /\ t.last_summary = NoSummary
        /\ t.delta = NegatedUsage(EstimateUsageForItems(removed))
        /\ (removed # <<>> => t.counter = Min(CountUserTurns(t.items), s.max_turns))

\* C29: when the summarization trigger fires but the prefix is empty, or the
\* summarizer returns empty summary text, add_items on a Summarizing session
\* falls back to plain trimming: no synthetic item is stored, the stored
\* sequence is the merged sequence cut to the last keepLastNTurns turns, and
\* the recorded delta and turn counter describe exactly the removed items.
C29_FallbackIsPlainTrimming ==
    [][\A a \in AgentIds :
          SESSIONS[a].kind = "summarizing" /\ last'.op = "add_items" /\ last'.agent = a =>
             /\ (calls # <<>> /\ calls' = <<>>
                 /\ Summarize(last'.outcome).summary_text = "" =>
                    PlainlyTrimmed(SESSIONS[a], calls[1].call.combined, SESSIONS'[a]))
             /\ (calls = <<>> /\ calls' = <<>> /\ last'.new # <<>>
                 /\ ShouldSummarize(SESSIONS[a].counter + CountUserTurns(last'.new),
                                    SESSIONS[a].max_turns) =>
                    PlainlyTrimmed(SESSIONS[a], SESSIONS[a].items \o last'.new,
                                   SESSIONS'[a]))]_vars

\* ------------------------------------------------------------------- C30
\* C30: after a summarization the turn counter of a Summarizing session is
\* min(contextLimitTurns, u + s), u being the user items of the suffix and
\* s being 1 when a synthetic user item (non-empty shadow line) was
\* inserted and 0 otherwise: the counter is the number of user items
\* stored, unless clamped by the limit.
C30_CounterAfterSummary ==
    [][\A a \in AgentIds :
          SESSIONS[a].kind = "summarizing" /\ last'.op = "add_items" /\ last'.agent = a
          /\ calls # <<>> /\ calls' = <<>>
          /\ Summarize(last'.outcome).summary_text # "" =>
             LET u == CountUserTurns(calls[1].call.suffix)
                 s == IF Summarize(last'.outcome).shadow_line # "" THEN 1 ELSE 0
             IN  /\ SESSIONS'[a].counter = Min(SESSIONS[a].max_turns, u + s)
                 /\ SESSIONS'[a].counter
                      = Min(SESSIONS[a].max_turns, CountUserTurns(SESSIONS'[a].items))]_vars

\* ------------------------------------------------------------------- C31
\* C31: after an add_items call on a Trimming session that removes items the
\* turn counter is min(keepLastNTurns, user items remaining stored), which
\* is keepLastNTurns; after a call that removes nothing the counter is its
\* previous value plus the number of user items among the new items.
C31_CounterAfterAdd ==
    [][\A a \in AgentIds :
          SESSIONS[a].kind = "trimming" /\ last'.op = "add_items" /\ last'.agent = a =>
             LET s == SESSIONS[a]
                 t == SESSIONS'[a]
             IN  IF RemovedItems(s.items, last'.new, t.items)
                 THEN /\ t.counter = Min(t.keep_last_n_turns, CountUserTurns(t.items))
                      /\ t.counter = t.keep_last_n_turns
                 ELSE t.counter = s.counter + CountUserTurns(last'.new)]_vars

\* An add_items call has removed items from a Trimming session that keeps
\* two turns: the counter is back at 2 and two user items are stored.
C31_Witness ==
    \E a \in AgentIds :
        /\ SESSIONS[a].kind = "trimming"
        /\ last.op = "add_items" /\ last.agent = a
        /\ SESSIONS[a].did_trim
        /\ SESSIONS[a].keep_last_n_turns = 2
        /\ SESSIONS[a].counter = 2
        /\ CountUserTurns(SESSIONS[a].items) = 2

\* ------------------------------------------------------------------- C32
\* C32: when keepLastNTurns is 0 and trimming is forced, the windowing
\* function returns the empty sequence, whatever items it is given.
C32_KeepZeroForcedIsEmpty ==
    \A a \in AgentIds :
        SESSIONS[a].kind = "summarizing" /\ SESSIONS[a].keep_last_n_turns = 0 =>
            TrimToLastTurns(SESSIONS[a].items, SESSIONS[a].max_turns,
                            SESSIONS[a].keep_last_n_turns, TRUE).trimmed = <<>>

\* ------------------------------------------------------------------- C33
\* The tokens of the items at the positions `counted`.
TokensOf(items, counted) ==
    LET sum[n \in 0..Len(items)] ==
            IF n = 0 THEN 0
            ELSE sum[n - 1] + (IF n \in counted
                               THEN EstimateTokensFromText(items[n].content) ELSE 0)
    IN  sum[Len(items)]

\* An item that the estimator takes for a tool item: its role says so, or
\* its message type does.
IsToolItem(item) ==
    item.role \in {"tool", "tool_result"} \/ item.type \in TOOL_MESSAGE_TYPES

\* C33 as stated: the usage estimator buckets every item by its role: user
\* items into userInput, tool items into tools and, for the retrieval tool,
\* also into rag, assistant items and items with a missing or unrecognized
\* role into agentOutput; rag <= tools and memory = basePrompt = 0.
C33_BucketsByRole ==
    \A a \in AgentIds :
        LET items == SESSIONS[a].items
            usage == EstimateUsageForItems(items)
            tool_roles == {"tool", "tool_result"}
        IN  /\ usage.userInput =
                  TokensOf(items, {i \in DOMAIN items : items[i].role = "user"})
            /\ usage.tools =
                  TokensOf(items, {i \in DOMAIN items : items[i].role \in tool_roles})
            /\ usage.agentOutput =
                  TokensOf(items, {i \in DOMAIN items :
                                      items[i].role \notin tool_roles \cup {"user"}})
            /\ usage.rag <= usage.tools
            /\ usage.memory = 0 /\ usage.basePrompt = 0

\* C33, amended: an item whose message type is a tool type (function_call,
\* function_call_output, tool, tool_result) counts as a tool item whatever
\* its role; every other item is bucketed by its role, user into userInput
\* and assistant, missing and unrecognized roles into agentOutput; tool
\* items count into tools and, for the retrieval tool, also into rag; so
\* rag <= tools and memory = basePrompt = 0.
C33_BucketsByRoleAndType ==
    \A a \in AgentIds :
        LET items == SESSIONS[a].items
            usage == EstimateUsageForItems(items)
            tools == {i \in DOMAIN items : IsToolItem(items[i])}
            others == DOMAIN items \ tools
        IN  /\ usage.userInput =
                  TokensOf(items, {i \in others : items[i].role = "user"})
            /\ usage.tools = TokensOf(items, tools)
            /\ usage.rag =
                  TokensOf(items, {i \in tools : items[i].name = "SearchPolicy"})
            /\ usage.agentOutput =
                  TokensOf(items, {i \in others : items[i].role # "user"})
            /\ usage.rag <= usage.tools
            /\ usage.memory = 0 /\ usage.basePrompt = 0

\* The estimator has been handed a function call without role, a tool item
\* of another tool and an item of an unrecognized role.
C33_Witness ==
    \E a \in AgentIds :
        LET items == SESSIONS[a].items
            usage == EstimateUsageForItems(items)
        IN  /\ \E i \in DOMAIN items : items[i].type = "function_call" /\ items[i].role = ""
            /\ \E i \in DOMAIN items : items[i].name = "GetOrder"
            /\ \E i \in DOMAIN items : items[i].role = "system"
            /\ usage.rag > 0 /\ usage.rag < usage.tools /\ usage.agentOutput > 0

\* ------------------------------------------------------------------- C34
\* C34: if clear_session on a Summarizing session completes while an
\* add_items call is suspended in the summarizer, the items stored before
\* the clear do not reappear: when the pending call completes right after
\* the clear, every stored item is one of the call's new items or a
\* synthetic item, and so is every item get_items() returns.
C34_ClearedItemsStayCleared ==
    [][\A a \in AgentIds :
          SESSIONS[a].kind = "summarizing"
          /\ last.op = "clear_session" /\ last.agent = a /\ calls # <<>>
          /\ last'.op = "add_items" /\ last'.agent = a /\ calls' = <<>> =>
             /\ \A i \in DOMAIN SESSIONS'[a].items :
                   \/ SESSIONS'[a].items[i].id < 0
                   \/ SESSIONS'[a].items[i].id \in Ids(last'.new)
             /\ Ids(GetItems(SESSIONS'[a])) \subseteq Ids(SESSIONS'[a].items)]_vars

\* ------------------------------------------------------------------- C35
\* C35: in every reachable state of a Default or Trimming session driven by
\* add_items, pop_item and clear_session, the turn counter equals the number
\* of user-role items stored; pop_item of a user item lowers it by one.
C35_CounterIsStoredUserItems ==
    \A a \in AgentIds :
        SESSIONS[a].kind \in {"default", "trimming"} =>
            SESSIONS[a].counter = CountUserTurns(SESSIONS[a].items)

\* ------------------------------------------------------------------- C36
\* A Summarizing session with keep >= 1 and contextLimit >= keep.
KeepWithinLimit(s) ==
    s.kind = "summarizing" /\ s.keep_last_n_turns >= 1 /\ s.max_turns >= s.keep_last_n_turns

\* C36: on a Summarizing session with keep >= 1 and contextLimit >= keep, an
\* add_items call whose new items contain no user-role item never calls the
\* summarizer; the assistant reply added right after a summarization does
\* not have the summary just produced summarized again.
C36_NoUserItemNoSummary ==
    [][\A a \in AgentIds :
          KeepWithinLimit(SESSIONS[a]) /\ calls = <<>>
          /\ last'.agent = a /\ last'.op \in {"add_items", "summarize"}
          /\ last'.new # <<>> /\ CountUserTurns(last'.new) = 0 =>
             /\ last'.op = "add_items"
             /\ summarizerCalls' = summarizerCalls
             /\ calls' = <<>>]_vars

\* ------------------------------------------------------------------- C37
\* C37: the active context of a Summarizing session with keep = K >= 1 and
\* contextLimit = L >= K stays bounded: after every add_items call, in any
\* sequence of add_items, pop_item and clear_session calls and whatever the
\* summarizer answers, at most L + 1 user-role items are stored.
C37_SummarizingBounded ==
    \A a \in AgentIds :
        KeepWithinLimit(SESSIONS[a]) =>
            CountUserTurns(SESSIONS[a].items) <= SESSIONS[a].max_turns + 1

\* A summarization has completed and L + 1 user items are stored: the
\* shadow line and the L turns that were kept.
C37_Witness ==
    \E a \in AgentIds :
        /\ KeepWithinLimit(SESSIONS[a])
        /\ last.op = "add_items" /\ last.agent = a
        /\ SESSIONS[a].last_summary # NoSummary
        /\ CountUserTurns(SESSIONS[a].items) = SESSIONS[a].max_turns + 1

\* ------------------------------------------------------------------- C38
\* The positions of the stored synthetic summary items (the assistant items
\* that add_items built from a summary text).
SummaryPositions(items) ==
    {i \in DOMAIN items : items[i].id < 0 /\ items[i].role = "assistant"}

\* C38: summaries replace each other and do not pile up: in every reachable
\* state of a Summarizing session with keep >= 1 the stored sequence holds
\* at most one synthetic summary item, and it is among the first two items.
C38_OneSummaryAtFront ==
    \A a \in AgentIds :
        SESSIONS[a].kind = "summarizing" /\ SESSIONS[a].keep_last_n_turns >= 1 =>
            /\ Cardinality(SummaryPositions(SESSIONS[a].items)) <= 1
            /\ SummaryPositions(SESSIONS[a].items) \subseteq {1, 2}

\* A second summary has replaced the first: it is stored behind its shadow
\* line, in front of the turn that was kept.
C38_Witness ==
    \E a \in AgentIds :
        /\ SESSIONS[a].kind = "summarizing" /\ SESSIONS[a].keep_last_n_turns >= 1
        /\ summarizerCalls >= 2
        /\ last.op = "add_items" /\ last.agent = a
        /\ SummaryPositions(SESSIONS[a].items) = {2}
        /\ SESSIONS[a].items[2].id = 0 - summarizerCalls
        /\ Len(SESSIONS[a].items) >= 3

\* ------------------------------------------------------------------- C39
\* The last element of a non-empty sequence.
Newest(items) == items[Len(items)]

\* C39: the newest item is never dropped: after any non-empty add_items
\* call on a Trimming or Summarizing session with keep >= 1, the last of
\* the new items is the last item stored and the last item of get_items().
C39_NewestItemKept ==
    \A a \in AgentIds :
        SESSIONS[a].kind \in {"trimming", "summarizing"}
        /\ SESSIONS[a].keep_last_n_turns >= 1
        /\ last.op = "add_items" /\ last.agent = a /\ last.new # <<>> =>
            /\ SESSIONS[a].items # <<>>
            /\ Newest(SESSIONS[a].items) = Newest(last.new)
            /\ GetItems(SESSIONS[a]) # <<>>
            /\ Newest(GetItems(SESSIONS[a])) = Newest(last.new)

\* An add_items call has removed older items of a Trimming session and
\* another has replaced a prefix of a Summarizing session by a summary; the
\* newest item is stored last.
C39_Witness ==
    \E a \in AgentIds :
        /\ last.op = "add_items" /\ last.agent = a /\ Len(last.new) = 2
        /\ SESSIONS[a].keep_last_n_turns >= 1
        /\ \/ SESSIONS[a].kind = "trimming" /\ SESSIONS[a].did_trim
           \/ SESSIONS[a].kind = "summarizing" /\ SESSIONS[a].last_summary # NoSummary
        /\ Len(SESSIONS[a].items) < nextId
        /\ Newest(SESSIONS[a].items).id = nextId

\* ------------------------------------------------------------------- C40
\* C40: in every reachable state of every session variant the pending usage
\* delta has userInput, agentOutput, tools and rag components <= 0 and
\* memory and basePrompt components equal to 0.
C40_DeltaNeverPositive ==
    \A a \in AgentIds :
        SESSIONS[a].kind # "none" =>
            /\ SESSIONS[a].delta.userInput <= 0
            /\ SESSIONS[a].delta.agentOutput <= 0
            /\ SESSIONS[a].delta.tools <= 0
            /\ SESSIONS[a].delta.rag <= 0
            /\ SESSIONS[a].delta.memory = 0
            /\ SESSIONS[a].delta.basePrompt = 0

\* A Summarizing session holds the delta of a prefix that held a user and a
\* tool item: userInput, tools and rag are negative.
C40_Witness ==
    \E a \in AgentIds :
        /\ SESSIONS[a].kind = "summarizing"
        /\ SESSIONS[a].did_summarize
        /\ SESSIONS[a].delta.userInput < 0
        /\ SESSIONS[a].delta.tools < 0
        /\ SESSIONS[a].delta.rag < 0

====
